---- MODULE Spec2Model ----
(***************************************************************************)
(* A model of cookiecut.js: the shader-program cache of Context, the       *)
(* ProcessingBuffer render target and its read-back, compileShaders, and   *)
(* the DCT distance functions used to match glyphs to cells.               *)
(*                                                                         *)
(* Ten specifications share the module:                                    *)
(*   SpecRead    the read-back reshaping of ProcessingBuffer.readCells     *)
(*   SpecDist    dctGradientDistance and the glyph selection built on it   *)
(*   SpecGL      Context, its DCT program cache and compileShaders, acting *)
(*               on one WebGL device                                       *)
(*   SpecBuffer  the ProcessingBuffer constructor, enable and disable      *)
(*   SpecImage   the FullImage constructor                                 *)
(*   SpecMeans   computeCellMeans on the pictures of small buffers         *)
(*   SpecGlyph   computeGlyphDcts and the canvas its atlas is drawn on     *)
(*   SpecLimit   Context.imageSizeLimit on devices of several sizes        *)
(*   SpecLowFreq dctLowFreqDistance                                        *)
(*   SpecPasses  ProcessingBuffers, Images and the passes computeCellMeans,*)
(*               computeImageSobel, computeImageDct and computeGlyphDcts   *)
(*               on one Context, in any order                              *)
(* Each specification leaves the variables it does not use at their        *)
(* initial value.                                                          *)
(***************************************************************************)
EXTENDS Integers, Sequences, FiniteSets, TLC

VARIABLES
    \* SpecRead
    rCellSize,      \* cellSize of the buffer, <<width, height>> in pixels
    rCellCount,     \* cellCount of the buffer, <<columns, rows>>
    rFramebuffer,   \* device contents: [column][bottom-origin row] -> 4 bytes
    rCells,         \* the last readCells call: [called, mapPixel, cells]
    \* SpecDist
    gridA, gridB,   \* two equal-shaped DCT grids
    heapNext,       \* next fresh object identity of the JS heap
    dist,           \* the last distance / selection call: [op, ...]
    \* SpecGL
    gl,             \* the WebGL2 device
    ctx,            \* the Context object: [constructed, ...]
    keyObjects,     \* history: for each cached key, the array object that inserted it
    buffers,        \* the ProcessingBuffer objects constructed so far
    last,           \* the call that has just ended: what it was and how it ended
    \* SpecGlyph
    drawing,        \* the caller's CanvasRenderingContext2D and its canvas
    \* SpecPasses
    images,         \* the Images constructed, in order of construction
    dctCalls        \* the calls of computeImageDct and computeGlyphDcts that returned

vars == <<rCellSize, rCellCount, rFramebuffer, rCells,
          gridA, gridB, heapNext, dist, gl, ctx, keyObjects, buffers, last,
          drawing, images, dctCalls>>

(***************************************************************************)
(* Bounds of the model.                                                    *)
(***************************************************************************)
MaxCellPx == 2      \* largest cell width / height read back, in pixels
MaxCells == 2       \* largest number of grid columns / rows read back
MaxShade == 2       \* the blue byte of the synthetic image ranges over 0..MaxShade
MaxRows == 2        \* most rows of a DCT grid
MaxCols == 3        \* most columns of a DCT grid
MaxCoef == 1        \* DCT coefficients range over 0..MaxCoef
MaxDim == 1         \* cell-size and cell-count components range over 0..MaxDim
NumCopies == 2      \* distinct array objects holding the same cell size
MaxListLen == 2     \* longest cellSizes list handed to Context / clearDctPrograms
MaxGlObjects == 12  \* WebGL objects the device hands out in SpecGL
MaxBuffers == 1     \* ProcessingBuffers constructed in SpecBuffer
MaxImagePx == 3     \* largest natural width / height of a source image
MaxLimit == 2       \* largest size limit of a context
MaxImages == 2      \* FullImages constructed in SpecImage
MaxByte == 5        \* the dark bytes of the pictures are MaxByte and MaxByte - 2
MaxMeanRows == 3    \* most grid rows of a buffer computeCellMeans reads
MaxFreePixels == 3  \* most pixels of a buffer whose every picture is tried
MaxMasks == 2       \* most mask colors handed to computeCellMeans
MaxChars == 3       \* most characters handed to computeGlyphDcts
MaxGlyphPx == 2     \* largest cell width / height handed to computeGlyphDcts
MaxGlyphTextures == 2 \* textures on the device when the last computeGlyphDcts call ends
MaxLowFreqCoefs == 4 \* most coefficients of a grid handed to dctLowFreqDistance
MaxPassImages == 1  \* Images constructed in SpecPasses
MaxImageCells == 2  \* widest source image and cell grid of an Image, in pixels and cells
MaxDctCalls == 2    \* calls of computeImageDct and computeGlyphDcts in SpecPasses
MaxPassObjects == 17 \* WebGL objects the device hands out in SpecPasses
DeviceMaxSize == 16 \* MAX_TEXTURE_SIZE and MAX_VIEWPORT_DIMS of the devices of a fixed size

(***************************************************************************)
(* JavaScript strings are sequences of one-character strings.              *)
(* NatToString is Number.prototype.toString on a non-negative integer.     *)
(***************************************************************************)
Digit(d) == CASE d = 0 -> "0" [] d = 1 -> "1" [] d = 2 -> "2" [] d = 3 -> "3"
              [] d = 4 -> "4" [] d = 5 -> "5" [] d = 6 -> "6" [] d = 7 -> "7"
              [] d = 8 -> "8" [] d = 9 -> "9"

RECURSIVE NatToString(_)
NatToString(n) ==
    IF n < 10 THEN <<Digit(n)>>
    ELSE NatToString(n \div 10) \o <<Digit(n % 10)>>

\* Number.prototype.toString on an integer
IntToString(n) == IF n < 0 THEN <<"-">> \o NatToString(-n) ELSE NatToString(n)

(***************************************************************************)
(* ProcessingBuffer.readCells                                              *)
(***************************************************************************)

\* gl.readPixels(0, 0, width, height, RGBA, UNSIGNED_BYTE, pixelBuffer):
\* rows are written bottom row first, 4 bytes per pixel.
ReadPixels(framebuffer, width, height) ==
    [i \in 0..(width * height * 4 - 1) |->
        framebuffer[(i \div 4) % width][(i \div 4) \div width][i % 4]]

\* pixelBuffer.slice(index, index+4)
SlicePixel(pixelBuffer, index) == [k \in 0..3 |-> pixelBuffer[index + k]]

\* The pixel decoders handed to readCells. "none" is a call without mapPixel;
\* "dct" is (pixel) => (pixel[0]/255)*2.0-1.0, kept as its numerator over 255.
MapPixels == {"none", "dct"}
ApplyMapPixel(mapPixel, pixel) ==
    IF mapPixel = "dct" THEN pixel[0] * 2 - 255 ELSE pixel

\* A row read without the bottom-to-top flip
PixelRowUnflipped(cellSize, cellCount, gridRow, cellRow) ==
    gridRow * cellSize[2] + cellRow

PixelRow(cellSize, cellCount, gridRow, cellRow) ==
    LET pixelRowCellBase == cellCount[2] - gridRow - 1
        pixelRowCellOffset == cellSize[2] - cellRow - 1
    IN  (pixelRowCellBase * cellSize[2]) + pixelRowCellOffset

ReadCells(framebuffer, cellSize, cellCount, width, height, mapPixel) ==
    LET pixelBuffer == ReadPixels(framebuffer, width, height)
    IN  [gridRow \in 0..(cellCount[2] - 1) |->
        [gridColumn \in 0..(cellCount[1] - 1) |->
        [cellRow \in 0..(cellSize[2] - 1) |->
        [cellColumn \in 0..(cellSize[1] - 1) |->
            LET pixelRow == PixelRow(cellSize, cellCount, gridRow, cellRow)
                pixelColumn == gridColumn * cellSize[1] + cellColumn
                index == (pixelRow * width + pixelColumn) * 4
                pixel == SlicePixel(pixelBuffer, index)
            IN  ApplyMapPixel(mapPixel, pixel)]]]]

\* The synthetic image: the pixel at column x and bottom-origin row y is
\* tagged with its own coordinates.
TaggedFramebuffer(width, height, shade) ==
    [x \in 0..(width - 1) |-> [y \in 0..(height - 1) |->
        [k \in 0..3 |-> CASE k = 0 -> x [] k = 1 -> y [] k = 2 -> shade [] k = 3 -> 255]]]

rWidth == rCellSize[1] * rCellCount[1]
rHeight == rCellSize[2] * rCellCount[2]

CallReadCells ==
    \E mapPixel \in MapPixels :
        /\ rCells' = [called |-> TRUE, mapPixel |-> mapPixel,
                      cells |-> ReadCells(rFramebuffer, rCellSize, rCellCount,
                                          rWidth, rHeight, mapPixel)]
        /\ UNCHANGED <<rCellSize, rCellCount, rFramebuffer>>
        /\ UNCHANGED <<gridA, gridB, heapNext, dist, gl, ctx, keyObjects, buffers, last,
                       drawing, images, dctCalls>>

(***************************************************************************)
(* JavaScript values of the distance functions.                            *)
(*                                                                         *)
(* A number is kept as a numerator over a denominator den (the grids'      *)
(* maxIdx): [type |-> "number", num, den] is num/den.  An array carries    *)
(* the identity of its object, [type |-> "array", id, elems, den], and a   *)
(* string its characters, [type |-> "string", chars].  The grids modelled  *)
(* are those whose maxIdx is a power of two: the weights 1-(row+col)/maxIdx*)
(* are then exact binary fractions and every product is printed exactly.   *)
(***************************************************************************)
Abs(x) == IF x < 0 THEN -x ELSE x

JsNumber(num, den) == [type |-> "number", num |-> num, den |-> den]
JsString(chars) == [type |-> "string", chars |-> chars]
JsArray(id, elems, den) == [type |-> "array", id |-> id, elems |-> elems, den |-> den]

RECURSIVE FracDigits(_, _)
FracDigits(r, den) ==
    IF r = 0 THEN <<>>
    ELSE <<Digit((r * 10) \div den)>> \o FracDigits((r * 10) % den, den)

\* Number.prototype.toString of num/den >= 0
NumberToString(num, den) ==
    NatToString(num \div den)
        \o (IF num % den = 0 THEN <<>> ELSE <<".">> \o FracDigits(num % den, den))

\* Array.prototype.join(): the elements' strings, separated by ","
RECURSIVE JoinNumbers(_, _)
JoinNumbers(elems, den) ==
    IF Len(elems) = 0 THEN <<>>
    ELSE IF Len(elems) = 1 THEN NumberToString(elems[1], den)
    ELSE NumberToString(elems[1], den) \o <<",">> \o JoinNumbers(Tail(elems), den)

\* ToPrimitive: an array becomes its toString(), a primitive is itself
ToPrimitive(v) ==
    IF v.type = "array" THEN JsString(JoinNumbers(v.elems, v.den)) ELSE v

\* ToString of a primitive
ToJsString(v) ==
    IF v.type = "number" THEN NumberToString(v.num, v.den) ELSE v.chars

\* The + operator: with a string operand (after ToPrimitive) it concatenates
JsPlus(x, y) ==
    LET px == ToPrimitive(x)
        py == ToPrimitive(y)
    IN  IF px.type = "string" \/ py.type = "string"
        THEN JsString(ToJsString(px) \o ToJsString(py))
        ELSE JsNumber(px.num * py.den + py.num * px.den, px.den * py.den)

IsDigit(ch) == ch \in {"0", "1", "2", "3", "4", "5", "6", "7", "8", "9"}
DigitValue(ch) == CHOOSE d \in 0..9 : Digit(d) = ch

RECURSIVE DigitsValue(_)
DigitsValue(chars) ==
    IF Len(chars) = 0 THEN 0
    ELSE DigitsValue(SubSeq(chars, 1, Len(chars) - 1)) * 10 + DigitValue(chars[Len(chars)])

RECURSIVE PowerOfTen(_)
PowerOfTen(k) == IF k = 0 THEN 1 ELSE 10 * PowerOfTen(k - 1)

\* ToNumber of a string made of digits, "." and ",": NaN unless it is a
\* decimal literal (the empty string is 0)
NaN == [type |-> "NaN"]
StringToNumber(chars) ==
    LET dots == {i \in 1..Len(chars) : chars[i] = "."}
        digits == SelectSeq(chars, IsDigit)
        wellFormed == /\ \A i \in 1..Len(chars) : IsDigit(chars[i]) \/ chars[i] = "."
                      /\ Cardinality(dots) <= 1
                      /\ (Len(chars) = 0 \/ Len(digits) >= 1)
        fracLen == IF dots = {} THEN 0 ELSE Len(chars) - (CHOOSE i \in dots : TRUE)
    IN  IF wellFormed THEN JsNumber(DigitsValue(digits), PowerOfTen(fracLen))
        ELSE NaN

ToNumber(v) == IF v.type = "number" THEN v ELSE StringToNumber(v.chars)

\* The == operator
JsLooseEquals(x, y) ==
    IF x.type = "array" /\ y.type = "array" THEN x.id = y.id
    ELSE LET px == ToPrimitive(x)
             py == ToPrimitive(y)
         IN  IF px.type = "string" /\ py.type = "string" THEN px.chars = py.chars
             ELSE LET nx == ToNumber(px)
                      ny == ToNumber(py)
                  IN  /\ nx.type # "NaN"
                      /\ ny.type # "NaN"
                      /\ nx.num * ny.den = ny.num * nx.den

\* UTF-16 code units of the characters that occur
CharCode(ch) == CASE ch = "," -> 44 [] ch = "-" -> 45 [] ch = "." -> 46
                  [] OTHER -> 48 + DigitValue(ch)

RECURSIVE StringLess(_, _)
StringLess(s, t) ==
    IF Len(t) = 0 THEN FALSE
    ELSE IF Len(s) = 0 THEN TRUE
    ELSE IF s[1] # t[1] THEN CharCode(s[1]) < CharCode(t[1])
    ELSE StringLess(Tail(s), Tail(t))

\* The < operator: two strings compare by code units, anything else as numbers
JsLessThan(x, y) ==
    LET px == ToPrimitive(x)
        py == ToPrimitive(y)
    IN  IF px.type = "string" /\ py.type = "string" THEN StringLess(px.chars, py.chars)
        ELSE LET nx == ToNumber(px)
                 ny == ToNumber(py)
             IN  /\ nx.type # "NaN"
                 /\ ny.type # "NaN"
                 /\ nx.num * ny.den < ny.num * nx.den

(***************************************************************************)
(* The matcher distance                                                    *)
(***************************************************************************)
GridRows(a) == Cardinality(DOMAIN a)
GridCols(a) == Cardinality(DOMAIN a[0])

\* Array.prototype.reduce((x, y) => x + y) without an initial value: the
\* only element of a one-element array is returned as it is
RECURSIVE ReducePlus(_)
ReducePlus(values) ==
    IF Len(values) = 1 THEN values[1]
    ELSE JsPlus(ReducePlus(SubSeq(values, 1, Len(values) - 1)), values[Len(values)])

\* dctGradientDistance(a, b) called when the next fresh object is `heap`.
\* a.map allocates the outer array, each row.map one array per row; the
\* numbers are numerators over maxIdx.
dctGradientDistance(a, b, heap) ==
    LET maxRow == GridRows(a) - 1
        maxColumn == GridCols(a) - 1
        maxIdx == maxRow + maxColumn + 1
        mapped == [rowIdx \in 1..(maxRow + 1) |->
                     JsArray(heap + rowIdx,
                             [colIdx \in 1..(maxColumn + 1) |->
                                 (maxIdx - ((rowIdx - 1) + (colIdx - 1)))
                                    * Abs(b[rowIdx - 1][colIdx - 1] - a[rowIdx - 1][colIdx - 1])],
                             maxIdx)]
    IN  ReducePlus(mapped)

\* Objects allocated by one call of dctGradientDistance
DistanceAllocations(a) == GridRows(a) + 1

\* dctDistance(a, b) of the earlier iteration: deweight both grids, flatten,
\* zip, and reduce from 0 with acc + Math.abs(x[1] - x[0])
dctDistance(a, b) ==
    LET maxRow == GridRows(a) - 1
        maxColumn == GridCols(a) - 1
        maxIdx == maxRow + maxColumn + 1
        deweight(dct) == [rowIdx \in 0..maxRow |-> [colIdx \in 0..maxColumn |->
                             dct[rowIdx][colIdx] * (maxIdx - (rowIdx + colIdx))]]
        flat(dct) == [i \in 1..((maxRow + 1) * (maxColumn + 1)) |->
                         dct[(i - 1) \div (maxColumn + 1)][(i - 1) % (maxColumn + 1)]]
        b_flat == flat(deweight(b))
        a_flat == flat(deweight(a))
        acc[n \in 0..Len(a_flat)] ==
            IF n = 0 THEN 0 ELSE acc[n - 1] + Abs(b_flat[n] - a_flat[n])
    IN  JsNumber(acc[Len(a_flat)], maxIdx)

\* Math.round(n * 0.5) of a length n: halves round up
RoundHalf(n) == (n + 1) \div 2

\* Array.prototype.slice(0, end) of a sequence
SliceTo(array, end) == SubSeq(array, 1, IF end < Len(array) THEN end ELSE Len(array))

\* dctLowFreqDistance(a, b) called when the next fresh object is `heap`.
\* lowFreqA and lowFreqB are built (a.map, one row.slice per row and the
\* outer slice allocate) and not used; the returned value is made from a
\* and b themselves.
dctLowFreqDistance(a, b, heap) ==
    LET rows == RoundHalf(GridRows(a))
        columns == RoundHalf(GridCols(a))
        AsArrays(grid) == [rowIdx \in 1..GridRows(grid) |->
                             [colIdx \in 1..GridCols(grid) |-> grid[rowIdx - 1][colIdx - 1]]]
        LowFreq(grid) ==
            SliceTo([rowIdx \in 1..GridRows(grid) |->
                        SliceTo(AsArrays(grid)[rowIdx], columns + 1)], rows + 1)
        lowFreqA == LowFreq(a)
        lowFreqB == LowFreq(b)
        allocated == 2 * (GridRows(a) + 2)
        mapped == [rowIdx \in 1..GridRows(a) |->
                     JsArray(heap + allocated + rowIdx,
                             [colIdx \in 1..GridCols(a) |->
                                 Abs(b[rowIdx - 1][colIdx - 1] - a[rowIdx - 1][colIdx - 1])],
                             1)]
    IN  ReducePlus(mapped)

\* selectBestGlyph(cellSignature, candidates): scan the candidates in input
\* order and keep the first one whose distance is smallest under <
SelectBestGlyph(cellSignature, candidates, heap) ==
    LET d(i) == dctGradientDistance(cellSignature, candidates[i], heap)
        best[n \in 1..Len(candidates)] ==
            IF n = 1 THEN 1
            ELSE IF JsLessThan(d(n), d(best[n - 1])) THEN n ELSE best[n - 1]
    IN  best[Len(candidates)]

IsPowerOfTwo(n) == \E k \in 0..n : 2 ^ k = n

GridShapes == {s \in (1..MaxRows) \X (1..MaxCols) : IsPowerOfTwo(s[1] + s[2] - 1)}
Grids(shape) == [0..(shape[1] - 1) -> [0..(shape[2] - 1) -> 0..MaxCoef]]
ConstantGrid(shape, v) == [r \in 0..(shape[1] - 1) |-> [c \in 0..(shape[2] - 1) |-> v]]

\* the variables a distance call leaves alone
DistFrame == <<gridA, gridB, heapNext, rCellSize, rCellCount, rFramebuffer, rCells,
               gl, ctx, keyObjects, buffers, last, drawing, images, dctCalls>>

\* distance(a, b) and then distance(b, a)
CallDistance ==
    LET ab == dctGradientDistance(gridA, gridB, heapNext)
        ba == dctGradientDistance(gridB, gridA, heapNext + DistanceAllocations(gridA))
    IN  /\ dist' = [op |-> "distance", ab |-> ab, ba |-> ba]
        /\ UNCHANGED DistFrame

\* distance(x, x)
CallDistanceSelf ==
    /\ dist' = [op |-> "self", xx |-> dctGradientDistance(gridA, gridA, heapNext)]
    /\ UNCHANGED DistFrame

\* the earlier iteration's dctDistance(a, b)
CallDctDistance ==
    /\ dist' = [op |-> "dctDistance", ab |-> dctDistance(gridA, gridB)]
    /\ UNCHANGED DistFrame

\* selectBestGlyph(cellSignature, [a, b]) on a uniform cell signature
CallSelectBestGlyph ==
    \E v \in 0..MaxCoef :
        LET cellSignature == ConstantGrid(<<GridRows(gridA), GridCols(gridA)>>, v)
        IN  /\ dist' = [op |-> "select", cellSignature |-> cellSignature,
                        best |-> SelectBestGlyph(cellSignature, <<gridA, gridB>>, heapNext)]
            /\ UNCHANGED DistFrame

(***************************************************************************)
(* The WebGL2 device.  Objects are named by a counter from 1, and 0 is     *)
(* null; `source` keeps the fragment source a linked program was built     *)
(* from, `uniforms` the values set on a program with uniform2f (a uniform  *)
(* never set is 0), maxTextureSize and maxViewportDims what getParameter   *)
(* answers for MAX_TEXTURE_SIZE and MAX_VIEWPORT_DIMS.  A shader deleted    *)
(* while attached to a program is only flagged, and goes when the program  *)
(* is deleted.                                                             *)
(***************************************************************************)
EmptyMap == [x \in {} |-> x]
MapSet(m, k, v) == [x \in (DOMAIN m) \cup {k} |-> IF x = k THEN v ELSE m[x]]
MapDelete(m, k) == [x \in (DOMAIN m) \ {k} |-> m[x]]

CreateShader(g) == [g EXCEPT !.nextId = @ + 1, !.shaders = @ \cup {g.nextId}]
CreateProgram(g) == [g EXCEPT !.nextId = @ + 1, !.programs = @ \cup {g.nextId}]
CreateTexture(g) == [g EXCEPT !.nextId = @ + 1, !.textures = @ \cup {g.nextId}]
CreateFramebuffer(g) == [g EXCEPT !.nextId = @ + 1, !.framebuffers = @ \cup {g.nextId}]
AttachShader(g, program, shader) == [g EXCEPT !.attached = @ \cup {<<program, shader>>}]
DeleteShader(g, shader) ==
    IF \E pair \in g.attached : pair[2] = shader
    THEN [g EXCEPT !.flagged = @ \cup {shader}]
    ELSE [g EXCEPT !.shaders = @ \ {shader}]
DeleteProgram(g, program) ==
    IF g.currentProgram = program
    THEN [g EXCEPT !.flagged = @ \cup {program}]
    ELSE LET detached == {pair \in g.attached : pair[1] = program}
             remaining == g.attached \ detached
             freed == {pair[2] : pair \in detached} \cap g.flagged
         IN  [g EXCEPT !.programs = @ \ {program},
                       !.attached = remaining,
                       !.shaders = @ \ freed,
                       !.flagged = @ \ freed]
UseProgram(g, program) == [g EXCEPT !.currentProgram = program]
BindTexture(g, texture) == [g EXCEPT !.boundTexture = texture]
BindFramebuffer(g, framebuffer) == [g EXCEPT !.boundFramebuffer = framebuffer]
\* gl.texImage2D(TEXTURE_2D, 0, RGBA, width, height, ...) on the bound texture
TexImage2D(g, width, height) ==
    IF width < 0 \/ height < 0 \/ g.boundTexture = 0 THEN g
    ELSE [g EXCEPT !.texImage = MapSet(@, g.boundTexture, <<width, height>>)]
\* gl.framebufferTexture2D(FRAMEBUFFER, COLOR_ATTACHMENT0, TEXTURE_2D, texture, 0)
FramebufferTexture2D(g, texture) ==
    IF g.boundFramebuffer = 0 THEN g
    ELSE [g EXCEPT !.colorAttachment = MapSet(@, g.boundFramebuffer, texture)]
\* gl.viewport: a negative width or height is INVALID_VALUE and changes nothing
Viewport(g, x, y, width, height) ==
    IF width < 0 \/ height < 0 THEN g
    ELSE [g EXCEPT !.viewport = <<x, y, width, height>>]



(***************************************************************************)
(* compileShaders.  `outcome` is what the device answers: "ok", or the     *)
(* step that fails, "vertex", "fragment" or "link".                        *)
(***************************************************************************)
CompileOutcomes == {"ok", "vertex", "fragment", "link"}

\* compileShaders whose fragment-failure branch forgets the vertex shader
CompileShadersLeakingVertex(g, fragmentShaderSource, outcome) ==
    LET vertexShader == g.nextId
        g1 == CreateShader(g)
        fragmentShader == g1.nextId
        g2 == CreateShader(g1)
        program == g2.nextId
        g3 == AttachShader(AttachShader(CreateProgram(g2), program, vertexShader),
                           program, fragmentShader)
    IN  IF outcome = "vertex"
        THEN [gl |-> DeleteShader(g1, vertexShader), threw |-> TRUE, program |-> 0]
        ELSE IF outcome = "fragment"
        THEN [gl |-> DeleteShader(g2, fragmentShader),
              threw |-> TRUE, program |-> 0]
        ELSE IF outcome = "link"
        THEN [gl |-> DeleteProgram(DeleteShader(DeleteShader(g3, vertexShader),
                                                fragmentShader), program),
              threw |-> TRUE, program |-> 0]
        ELSE [gl |-> [g3 EXCEPT !.source = MapSet(@, program, fragmentShaderSource)],
              threw |-> FALSE, program |-> program]

CompileShaders(g, fragmentShaderSource, outcome) ==
    LET vertexShader == g.nextId
        g1 == CreateShader(g)
        fragmentShader == g1.nextId
        g2 == CreateShader(g1)
        program == g2.nextId
        g3 == AttachShader(AttachShader(CreateProgram(g2), program, vertexShader),
                           program, fragmentShader)
    IN  IF outcome = "vertex"
        THEN [gl |-> DeleteShader(g1, vertexShader), threw |-> TRUE, program |-> 0]
        ELSE IF outcome = "fragment"
        THEN [gl |-> DeleteShader(DeleteShader(g2, vertexShader), fragmentShader),
              threw |-> TRUE, program |-> 0]
        ELSE IF outcome = "link"
        THEN [gl |-> DeleteProgram(DeleteShader(DeleteShader(g3, vertexShader),
                                                fragmentShader), program),
              threw |-> TRUE, program |-> 0]
        ELSE [gl |-> [g3 EXCEPT !.source = MapSet(@, program, fragmentShaderSource)],
              threw |-> FALSE, program |-> program]

\* The fragment sources: two fixed texts, and the text dctFragmentSource
\* builds, which differs exactly in the two numbers written into it
RedrawFragmentSource == <<"redraw">>
SobelFragmentSource == <<"sobel">>
DctFragmentSource(cellWidth, cellHeight) == <<"dct", cellWidth, cellHeight>>

(***************************************************************************)
(* Cell sizes.  A cell size handed to the program is an array object:      *)
(* [v |-> <<width, height>>, obj |-> k], where k tells apart the array     *)
(* objects that hold the same numbers.                                     *)
(***************************************************************************)
isPositiveInteger(val) == val > 0 /\ val \in Int

isCellSize(cellSize) ==
    /\ Len(cellSize) # 0
    /\ Len(cellSize) >= 2
    /\ isPositiveInteger(cellSize[1])
    /\ isPositiveInteger(cellSize[2])

\* Array.prototype.join() of an array of integers
RECURSIVE Join(_)
Join(array) ==
    IF Len(array) = 0 THEN <<>>
    ELSE IF Len(array) = 1 THEN IntToString(array[1])
    ELSE IntToString(array[1]) \o <<",">> \o Join(Tail(array))

\* A cache keyed by the array object itself, as a Map with array keys is
CacheKeyByReference(cellSize) == cellSize

\* The key of the DCT program cache: cellSize.join()
CacheKey(cellSize) == Join(cellSize.v)

DimValues == 0..MaxDim
CellSizeValues == DimValues \X DimValues
CellSizeObjects == [v : CellSizeValues, obj : 1..NumCopies]
\* the lists are array literals: fresh arrays, never an array used elsewhere
ListedCellSizes == [v : CellSizeValues, obj : {1}]
\* the lists tried: no cell size twice, in ascending order of (width, height)
Rank(cellSize) == cellSize.v[1] * (MaxDim + 1) + cellSize.v[2]
CellSizeLists ==
    {list \in UNION {[1..n -> ListedCellSizes] : n \in 0..MaxListLen} :
        \A i, j \in DOMAIN list : i < j => Rank(list[i]) < Rank(list[j])}
\* an optional cellSizes argument: left out, or a list
OptionalCellSizeLists ==
    {[given |-> FALSE]} \cup {[given |-> TRUE, list |-> l] : l \in CellSizeLists}

(***************************************************************************)
(* Context.  Every operation is an operator from the state before the call *)
(* to a record of what the call leaves behind:                             *)
(*   gl, ctx     the device and the Context after the call                 *)
(*   error       "none", or what was thrown: "vertex", "fragment", "link"  *)
(*               (from compileShaders) or "TypeError"                      *)
(*   compiles    calls of compileShaders made                              *)
(*   failFrom    the first object name of the compileShaders call that     *)
(*               threw (0 when none did)                                   *)
(*   warnings    calls of console.warn,  logs  calls of console.log        *)
(***************************************************************************)
CallResult(g, c, error, compiles, failFrom, warnings, logs) ==
    [gl |-> g, ctx |-> c, error |-> error, compiles |-> compiles,
     failFrom |-> failFrom, warnings |-> warnings, logs |-> logs]

\* what compileShaders logs and throws on a failure
CompileError(outcome) == outcome


Undefined == [type |-> "undefined"]

\* ToNumber of undefined, NaN, a number or a string
ToNumeric(v) == IF v.type \in {"undefined", "NaN"} THEN NaN ELSE ToNumber(v)

\* Math.min(a, b) of a number and a typed array: the array becomes the
\* number its toString() spells, NaN when it has several elements
MathMin(a, b) ==
    LET nb == ToNumeric(ToPrimitive(b))
    IN  IF nb.type = "NaN" THEN NaN
        ELSE IF nb.num * a.den < a.num * nb.den THEN nb ELSE a

\* Context.imageSizeLimit
ImageSizeLimit(maxTextureSize, maxViewportDims) ==
    MathMin(JsNumber(maxTextureSize, 1), JsArray(0, maxViewportDims, 1))

NoContext == [constructed |-> FALSE]

\* new Map(entries): an entry that is undefined is a TypeError; of two
\* entries with one key the later one stays
RECURSIVE NewMap(_)
NewMap(entries) ==
    IF Len(entries) = 0 THEN EmptyMap
    ELSE LET e == entries[Len(entries)]
         IN  MapSet(NewMap(SubSeq(entries, 1, Len(entries) - 1)), e.key, e.program)

\* new Context(canvas, cellSizes).  The compileShaders call number `failAt`
\* of this construction fails at step `kind` (no call fails when failAt = 0).
ContextConstructor(g, cellSizes, failAt, kind) ==
    LET Outcome(n) == IF n = failAt THEN kind ELSE "ok"
        redraw == CompileShaders(g, RedrawFragmentSource, Outcome(1))
        sobel == CompileShaders(redraw.gl, SobelFragmentSource, Outcome(2))
        list == IF cellSizes.given THEN cellSizes.list ELSE <<>>
        \* cellSizes?.map(...), after its first i elements
        mapped[i \in 0..Len(list)] ==
            IF i = 0
            THEN [gl |-> sobel.gl, entries |-> <<>>, compiles |-> 2,
                  warnings |-> 0, error |-> "none", failFrom |-> 0]
            ELSE LET prev == mapped[i - 1]
                     cellSize == list[i]
                     r == CompileShaders(prev.gl,
                              DctFragmentSource(cellSize.v[1], cellSize.v[2]),
                              Outcome(prev.compiles + 1))
                 IN  IF prev.error # "none" THEN prev
                     ELSE IF isCellSize(cellSize.v)
                     THEN [gl |-> r.gl,
                           entries |-> IF r.threw THEN prev.entries
                                       ELSE Append(prev.entries,
                                                [defined |-> TRUE,
                                                 key |-> CacheKey(cellSize),
                                                 program |-> r.program]),
                           compiles |-> prev.compiles + 1,
                           warnings |-> prev.warnings,
                           error |-> IF r.threw THEN CompileError(Outcome(prev.compiles + 1))
                                     ELSE "none",
                           failFrom |-> IF r.threw THEN prev.gl.nextId ELSE 0]
                     ELSE [prev EXCEPT !.entries = Append(@, [defined |-> FALSE]),
                                       !.warnings = @ + 1]
        done == mapped[Len(list)]
    IN  IF redraw.threw
        THEN CallResult(redraw.gl, NoContext, CompileError(Outcome(1)), 1, g.nextId, 0, 1)
        ELSE IF sobel.threw
        THEN CallResult(sobel.gl, NoContext, CompileError(Outcome(2)), 2,
                        redraw.gl.nextId, 0, 1)
        ELSE IF done.error # "none"
        THEN CallResult(done.gl, NoContext, done.error, done.compiles,
                        done.failFrom, done.warnings, 1)
        ELSE IF \E i \in 1..Len(done.entries) : ~done.entries[i].defined
        THEN CallResult(done.gl, NoContext, "TypeError", done.compiles, 0,
                        done.warnings, 0)
        ELSE CallResult(done.gl,
                        [constructed |-> TRUE,
                         redrawProgram |-> redraw.program,
                         sobelProgram |-> sobel.program,
                         dctPrograms |-> NewMap(done.entries),
                         imageSizeLimit |-> ImageSizeLimit(g.maxTextureSize,
                                                           g.maxViewportDims)],
                        "none", done.compiles, 0, done.warnings, 0)

\* addCellSize that builds a program for every valid cell size and puts it
\* under the key, cached or not
AddCellSizeReplacing(g, c, cellSize, outcome) ==
    IF isCellSize(cellSize.v)
    THEN LET key == CacheKey(cellSize)
             r == CompileShaders(g, DctFragmentSource(cellSize.v[1], cellSize.v[2]),
                                 outcome)
         IN  IF r.threw
             THEN CallResult(r.gl, c, CompileError(outcome), 1, g.nextId, 0, 1)
             ELSE CallResult(r.gl,
                      [c EXCEPT !.dctPrograms = MapSet(@, key, r.program)],
                      "none", 1, 0, 0, 0)
    ELSE CallResult(g, c, "none", 0, 0, 1, 0)

\* Context.addCellSize(cellSize)
AddCellSize(g, c, cellSize, outcome) ==
    IF isCellSize(cellSize.v)
    THEN LET key == CacheKey(cellSize)
             r == CompileShaders(g, DctFragmentSource(cellSize.v[1], cellSize.v[2]),
                                 outcome)
         IN  IF key \notin DOMAIN c.dctPrograms
             THEN IF r.threw
                  THEN CallResult(r.gl, c, CompileError(outcome), 1, g.nextId, 0, 1)
                  ELSE CallResult(r.gl,
                           [c EXCEPT !.dctPrograms = MapSet(@, key, r.program)],
                           "none", 1, 0, 0, 0)
             ELSE CallResult(g, c, "none", 0, 0, 1, 0)
    ELSE CallResult(g, c, "none", 0, 0, 1, 0)

\* clearDctPrograms that gives up at the first cell size that is not cached
RECURSIVE ClearListedStoppingAtMissing(_, _)
ClearListedStoppingAtMissing(dctPrograms, cellSizes) ==
    IF Len(cellSizes) = 0 THEN [dctPrograms |-> dctPrograms, warnings |-> 0]
    ELSE LET key == CacheKey(cellSizes[1])
         IN  IF key \in DOMAIN dctPrograms
             THEN ClearListedStoppingAtMissing(MapDelete(dctPrograms, key), Tail(cellSizes))
             ELSE [dctPrograms |-> dctPrograms, warnings |-> 1]

\* the loop of clearDctPrograms: delete each listed key, warn when
\* Map.prototype.delete finds nothing
RECURSIVE ClearListed(_, _)
ClearListed(dctPrograms, cellSizes) ==
    IF Len(cellSizes) = 0 THEN [dctPrograms |-> dctPrograms, warnings |-> 0]
    ELSE LET key == CacheKey(cellSizes[1])
             rest == ClearListed(MapDelete(dctPrograms, key), Tail(cellSizes))
         IN  IF key \in DOMAIN dctPrograms THEN rest
             ELSE [rest EXCEPT !.warnings = @ + 1]

\* Context.clearDctPrograms(cellSizes)
ClearDctPrograms(g, c, cellSizes) ==
    IF cellSizes.given
    THEN LET cleared == ClearListed(c.dctPrograms, cellSizes.list)
         IN  CallResult(g, [c EXCEPT !.dctPrograms = cleared.dctPrograms],
                        "none", 0, 0, cleared.warnings, 0)
    ELSE CallResult(g, [c EXCEPT !.dctPrograms = EmptyMap], "none", 0, 0, 0, 0)

\* useDctProgram that uses the program it builds on a miss without caching it
UseDctProgramWithoutCaching(g, c, cellSize, outcome) ==
    LET key == CacheKey(cellSize)
        r == CompileShaders(g, DctFragmentSource(cellSize.v[1], cellSize.v[2]), outcome)
    IN  IF key \in DOMAIN c.dctPrograms
        THEN CallResult(UseProgram(g, c.dctPrograms[key]), c, "none", 0, 0, 0, 0)
        ELSE IF r.threw
        THEN CallResult(r.gl, c, CompileError(outcome), 1, g.nextId, 0, 2)
        ELSE CallResult(UseProgram(r.gl, r.program), c, "none", 1, 0, 0, 1)

\* useDctProgram that caches and uses the handle of the program it was
\* building when compileShaders threw
UseDctProgramKeepingFailed(g, c, cellSize, outcome) ==
    LET key == CacheKey(cellSize)
        r == CompileShaders(g, DctFragmentSource(cellSize.v[1], cellSize.v[2]), outcome)
    IN  IF key \in DOMAIN c.dctPrograms
        THEN CallResult(UseProgram(g, c.dctPrograms[key]), c, "none", 0, 0, 0, 0)
        ELSE IF r.threw
        THEN CallResult(UseProgram(r.gl, g.nextId + 2),
                        [c EXCEPT !.dctPrograms = MapSet(@, key, g.nextId + 2)],
                        CompileError(outcome), 1, g.nextId, 0, 2)
        ELSE CallResult(UseProgram(r.gl, r.program),
                        [c EXCEPT !.dctPrograms = MapSet(@, key, r.program)],
                        "none", 1, 0, 0, 1)

\* Context.useDctProgram(cellSize)
UseDctProgram(g, c, cellSize, outcome) ==
    LET key == CacheKey(cellSize)
        w == cellSize.v[1]
        h == cellSize.v[2]
        r == CompileShaders(g, DctFragmentSource(w, h), outcome)
    IN  IF key \in DOMAIN c.dctPrograms
        THEN CallResult(UseProgram(g, c.dctPrograms[key]), c, "none", 0, 0, 0, 0)
        ELSE IF r.threw
        THEN CallResult(r.gl, c, CompileError(outcome), 1, g.nextId, 0, 2)
        ELSE CallResult(UseProgram(r.gl, r.program),
                        [c EXCEPT !.dctPrograms = MapSet(@, key, r.program)],
                        "none", 1, 0, 0, 1)

(***************************************************************************)
(* ProcessingBuffer                                                        *)
(***************************************************************************)
\* new ProcessingBuffer(gl, cellSize, cellCount, enabled); cellSize and
\* cellCount are the arrays' contents
ProcessingBufferConstructor(g, cellSize, cellCount, enabled) ==
    IF ~isCellSize(cellSize)
    THEN [gl |-> g, threw |-> TRUE]
    ELSE LET width == cellSize[1] * cellCount[1]
             height == cellSize[2] * cellCount[2]
             texture == g.nextId
             g1 == TexImage2D(BindTexture(CreateTexture(g), texture), width, height)
             framebuffer == g1.nextId
             g2 == FramebufferTexture2D(
                       BindFramebuffer(CreateFramebuffer(g1), framebuffer), texture)
             g3 == IF enabled THEN Viewport(g2, 0, 0, width, height)
                   ELSE BindFramebuffer(g2, 0)
         IN  [gl |-> BindTexture(g3, 0), threw |-> FALSE,
              buffer |-> [cellSize |-> cellSize, cellCount |-> cellCount,
                          width |-> width, height |-> height,
                          texture |-> texture, framebuffer |-> framebuffer,
                          enabled |-> enabled]]

\* ProcessingBuffer.enable()
Enable(g, buffer) ==
    [gl |-> Viewport(BindFramebuffer(g, buffer.framebuffer),
                     0, 0, buffer.width, buffer.height),
     buffer |-> [buffer EXCEPT !.enabled = TRUE]]

\* ProcessingBuffer.disable()
Disable(g, buffer) ==
    [gl |-> BindFramebuffer(g, 0),
     buffer |-> [buffer EXCEPT !.enabled = FALSE]]

(***************************************************************************)
(* FullImage                                                               *)
(***************************************************************************)
\* The > operator on primitives that are not both strings
JsGreaterThan(x, y) ==
    LET nx == ToNumeric(x)
        ny == ToNumeric(y)
    IN  /\ nx.type # "NaN"
        /\ ny.type # "NaN"
        /\ nx.num * ny.den > ny.num * nx.den

\* The size limits of the contexts handed to FullImage: the one a Context
\* computes on a square device, or a number the caller has put in the field
SizeLimits ==
    {ImageSizeLimit(t, <<t, t>>) : t \in 1..MaxLimit}
        \cup {JsNumber(t, 1) : t \in 1..MaxLimit}

\* this.size.map[index]: a property of the function this.size.map, which
\* has none of that name
SizeMapProperty(size, index) == Undefined

Max(a, b) == IF a >= b THEN a ELSE b

\* gl.texImage2D(TEXTURE_2D, 0, RGBA, RGBA, UNSIGNED_BYTE, img) on the bound
\* texture: the texture takes the size of img
TexImage2DSource(g, size) ==
    IF g.boundTexture = 0 THEN g
    ELSE [g EXCEPT !.texImage = MapSet(@, g.boundTexture, size)]

\* new FullImage(context, img), img of natural size naturalSize and the
\* context's imageSizeLimit sizeLimit
FullImageConstructor(g, naturalSize, sizeLimit) ==
    LET textureSizeClipped ==
            \/ JsGreaterThan(SizeMapProperty(naturalSize, 0), sizeLimit)
            \/ JsGreaterThan(SizeMapProperty(naturalSize, 1), sizeLimit)
        \* overScale = Math.max(...size.map((l) => l/sizeLimit)), and
        \* Math.floor(l/overScale) = floor(l * sizeLimit / max(size))
        longest == Max(naturalSize[1], naturalSize[2])
        floored(l) == (l * sizeLimit.num) \div (longest * sizeLimit.den)
        size == IF textureSizeClipped
                THEN <<floored(naturalSize[1]), floored(naturalSize[2])>>
                ELSE naturalSize
        texture == g.nextId
        g1 == TexImage2DSource(BindTexture(CreateTexture(g), texture), size)
    IN  [gl |-> BindTexture(g1, 0),
         image |-> [size |-> size, textureSizeClipped |-> textureSizeClipped,
                    texture |-> texture]]

(***************************************************************************)
(* The numbers of computeCellMeans.  A JavaScript number is an IEEE 754    *)
(* binary64 value, and +, * and / round the exact result to the nearest    *)
(* such value, ties to the even mantissa.  The values met here are zero    *)
(* and positive normal numbers: [m |-> mantissa, e |-> exponent] is        *)
(* mantissa * 2^exponent, the mantissa a natural number of exactly 53 bits *)
(* (zero is [m |-> <<>>, e |-> 0]).  A natural number is the sequence of   *)
(* its 14-bit limbs, lowest first, without leading zero limbs.             *)
(***************************************************************************)
LimbBits == 14
LimbBase == 16384
MantissaBits == 53
\* limbs of a mantissa
MantissaLimbs == (MantissaBits + LimbBits - 1) \div LimbBits

RECURSIVE PowerOfTwo(_)
PowerOfTwo(k) == IF k = 0 THEN 1 ELSE 2 * PowerOfTwo(k - 1)

Limb(a, i) == IF i <= Len(a) THEN a[i] ELSE 0

RECURSIVE Normalize(_)
Normalize(a) ==
    IF Len(a) = 0 \/ a[Len(a)] # 0 THEN a ELSE Normalize(SubSeq(a, 1, Len(a) - 1))

RECURSIVE AddCarry(_, _, _, _)
AddCarry(a, b, i, carry) ==
    IF i > Len(a) /\ i > Len(b) THEN (IF carry = 0 THEN <<>> ELSE <<carry>>)
    ELSE LET s == Limb(a, i) + Limb(b, i) + carry
         IN  <<s % LimbBase>> \o AddCarry(a, b, i + 1, s \div LimbBase)
BigAdd(a, b) == AddCarry(a, b, 1, 0)

\* a - b, for a >= b
RECURSIVE SubBorrow(_, _, _, _)
SubBorrow(a, b, i, borrow) ==
    IF i > Len(a) THEN <<>>
    ELSE LET d == a[i] - Limb(b, i) - borrow
         IN  <<d % LimbBase>> \o SubBorrow(a, b, i + 1, IF d < 0 THEN 1 ELSE 0)
BigSub(a, b) == Normalize(SubBorrow(a, b, 1, 0))

RECURSIVE LessFrom(_, _, _)
LessFrom(a, b, i) ==
    IF i = 0 THEN FALSE
    ELSE IF a[i] # b[i] THEN a[i] < b[i]
    ELSE LessFrom(a, b, i - 1)
BigLess(a, b) ==
    IF Len(a) # Len(b) THEN Len(a) < Len(b) ELSE LessFrom(a, b, Len(a))

\* a * k, for 0 <= k < LimbBase
RECURSIVE MulCarry(_, _, _, _)
MulCarry(a, k, i, carry) ==
    IF i > Len(a) THEN (IF carry = 0 THEN <<>> ELSE <<carry>>)
    ELSE LET p == a[i] * k + carry
         IN  <<p % LimbBase>> \o MulCarry(a, k, i + 1, p \div LimbBase)
BigMulSmall(a, k) == IF k = 0 THEN <<>> ELSE MulCarry(a, k, 1, 0)

ZeroLimbs(n) == [i \in 1..n |-> 0]

\* a * b, for a and b not zero
RECURSIVE MulFrom(_, _, _)
MulFrom(a, b, j) ==
    IF j > Len(b) THEN <<>>
    ELSE BigAdd(IF b[j] = 0 THEN <<>> ELSE ZeroLimbs(j - 1) \o BigMulSmall(a, b[j]),
                MulFrom(a, b, j + 1))
BigMul(a, b) == MulFrom(a, b, 1)

RECURSIVE SmallBitLength(_)
SmallBitLength(n) == IF n = 0 THEN 0 ELSE 1 + SmallBitLength(n \div 2)
BitLength(a) ==
    IF Len(a) = 0 THEN 0 ELSE LimbBits * (Len(a) - 1) + SmallBitLength(a[Len(a)])

\* a * 2^s
ShiftLeft(a, s) ==
    IF Len(a) = 0 THEN a
    ELSE ZeroLimbs(s \div LimbBits) \o BigMulSmall(a, PowerOfTwo(s % LimbBits))

RECURSIVE DivSmallFrom(_, _, _, _)
DivSmallFrom(a, k, i, rem) ==
    IF i = 0 THEN <<>>
    ELSE LET cur == rem * LimbBase + a[i]
         IN  DivSmallFrom(a, k, i - 1, cur % k) \o <<cur \div k>>
\* floor(a / 2^s)
ShiftRight(a, s) ==
    LET dropped == IF s \div LimbBits >= Len(a) THEN <<>>
                   ELSE SubSeq(a, s \div LimbBits + 1, Len(a))
    IN  Normalize(DivSmallFrom(dropped, PowerOfTwo(s % LimbBits), Len(dropped), 0))

DoubleZero == [m |-> <<>>, e |-> 0]

\* the double nearest to n * 2^e, ties to even
RoundToDouble(n, e) ==
    LET Carried(m, t) ==
            IF BitLength(m) > MantissaBits
            THEN [m |-> ShiftRight(m, 1), e |-> e + t + 1]
            ELSE [m |-> m, e |-> e + t]
        Nearest(kept, low, half, t) ==
            Carried(IF BigLess(half, low) \/ (low = half /\ kept[1] % 2 = 1)
                    THEN BigAdd(kept, <<1>>) ELSE kept,
                    t)
        Cut(kept, t) ==
            Nearest(kept, BigSub(n, ShiftLeft(kept, t)), ShiftLeft(<<1>>, t - 1), t)
        Sized(len) ==
            IF len = 0 THEN DoubleZero
            ELSE IF len <= MantissaBits
            THEN [m |-> ShiftLeft(n, MantissaBits - len), e |-> e - (MantissaBits - len)]
            ELSE Cut(ShiftRight(n, len - MantissaBits), len - MantissaBits)
    IN  Sized(BitLength(n))

\* the double of a small natural number
ToDouble(n) == RoundToDouble(IF n = 0 THEN <<>> ELSE <<n>>, 0)

\* x * y
DoubleMul(x, y) ==
    IF Len(x.m) = 0 \/ Len(y.m) = 0 THEN DoubleZero
    ELSE RoundToDouble(BigMul(x.m, y.m), x.e + y.e)

\* x + y
DoubleAdd(x, y) ==
    LET Aligned(e) ==
            RoundToDouble(BigAdd(ShiftLeft(x.m, x.e - e), ShiftLeft(y.m, y.e - e)), e)
    IN  IF Len(x.m) = 0 THEN y
        ELSE IF Len(y.m) = 0 THEN x
        ELSE Aligned(IF x.e < y.e THEN x.e ELSE y.e)

\* the largest digit q <= guess with q * d <= r
RECURSIVE FitDigit(_, _, _)
FitDigit(guess, r, d) ==
    IF BigLess(r, BigMulSmall(d, guess)) THEN FitDigit(guess - 1, r, d) ELSE guess

\* long division in base LimbBase: `steps` more limbs of the quotient of
\* r / d, for r < d and d of MantissaLimbs limbs with its top bit set; each
\* digit is guessed from the top limbs and then fitted
RECURSIVE DivideLimbs(_, _, _, _)
DivideLimbs(r, d, steps, digits) ==
    LET Continued(rest, digit) ==
            IF Len(rest) + digit >= 0
            THEN DivideLimbs(rest, d, steps - 1, <<digit>> \o digits)
            ELSE [q |-> digits, inexact |-> TRUE]
        Fitted(shifted, digit) ==
            Continued(BigSub(shifted, BigMulSmall(d, digit)), digit)
        Guessed(shifted, guess) ==
            Fitted(shifted,
                   FitDigit(IF guess >= LimbBase THEN LimbBase - 1 ELSE guess, shifted, d))
        Shifted(shifted) ==
            Guessed(shifted,
                    (Limb(shifted, Len(d) + 1) * LimbBase + Limb(shifted, Len(d)))
                        \div d[Len(d)])
    IN  IF steps = 0 THEN [q |-> Normalize(digits), inexact |-> Len(r) # 0]
        ELSE Shifted(IF Len(r) = 0 THEN r ELSE <<0>> \o r)

\* x / y, for y not zero: the quotient of the mantissas to MantissaLimbs
\* limbs behind the point, and one bit more that tells whether it is exact
DoubleDiv(x, y) ==
    LET shift == MantissaLimbs * LimbBits - MantissaBits
        Rounded(res) ==
            RoundToDouble(BigAdd(BigMulSmall(res.q, 2),
                                 IF res.inexact THEN <<1>> ELSE <<>>),
                          x.e - y.e - MantissaLimbs * LimbBits - 1)
        Divided(n, d, ge) ==
            Rounded(DivideLimbs(IF ge THEN BigSub(n, d) ELSE n, d, MantissaLimbs,
                                IF ge THEN <<1>> ELSE <<0>>))
        Aligned(n, d) == Divided(n, d, ~BigLess(n, d))
    IN  IF Len(x.m) = 0 THEN x
        ELSE Aligned(ShiftLeft(x.m, shift), ShiftLeft(y.m, shift))

\* x > 0
DoublePositive(x) == Len(x.m) # 0

(***************************************************************************)
(* computeCellMeans.  A pixel read back is 4 bytes; the masks are colors   *)
(* given as bytes over 255 too, and maskEpsilon is undefined or a number   *)
(* num/den.  A pixel handed on by maskPixel is [type |-> "pixel", c], c    *)
(* its 4 doubles, and null is [type |-> "null"].                           *)
(***************************************************************************)
Null == [type |-> "null"]

defaultMaskEpsilon == JsNumber(6, 100)

\* x/255 of every byte x
ByteOver255 == [x \in 0..255 |-> DoubleDiv(ToDouble(x), ToDouble(255))]

\* Array.from(pixel, (x) => x/255)
UnitPixel(pixel) == [k \in 0..3 |-> ByteOver255[pixel[k]]]

\* colorDistance(rgb, mask) < epsilon, for rgb and mask of bytes over 255:
\* hypot(d0, d1, d2)/255 < num/den, both sides squared.  For the bytes and
\* epsilons of the model the two sides are equal or several thousandths
\* apart, and when they are equal the doubles are exact (1 - 0 against 1).
ColorDistanceLess(rgb, mask, epsilon) ==
    LET d(k) == rgb[k] - mask[k + 1]
    IN  (d(0) * d(0) + d(1) * d(1) + d(2) * d(2)) * epsilon.den * epsilon.den
            < epsilon.num * epsilon.num * 255 * 255

\* maskPixel that tries the first mask only
MaskPixelFirstMaskOnly(masks, maskEpsilon, pixel) ==
    LET epsilon == IF maskEpsilon.type = "undefined" THEN defaultMaskEpsilon
                   ELSE maskEpsilon
    IN  IF masks.given /\ Len(masks.list) > 0
              /\ ColorDistanceLess(pixel, masks.list[1], epsilon)
        THEN Null
        ELSE [type |-> "pixel", c |-> UnitPixel(pixel)]

\* (pixel) => maskPixel(Array.from(pixel, (x) => x/255)), on the bytes
MaskPixel(masks, maskEpsilon, pixel) ==
    LET epsilon == IF maskEpsilon.type = "undefined" THEN defaultMaskEpsilon
                   ELSE maskEpsilon
    IN  IF masks.given
              /\ \E i \in 1..Len(masks.list) :
                    ColorDistanceLess(pixel, masks.list[i], epsilon)
        THEN Null
        ELSE [type |-> "pixel", c |-> UnitPixel(pixel)]

\* cell.flat(1): the pixels of a cell, row after row
Flat(cell) ==
    LET height == Cardinality(DOMAIN cell)
        width == Cardinality(DOMAIN cell[0])
    IN  [k \in 1..(width * height) |-> cell[(k - 1) \div width][(k - 1) % width]]

\* [pixel[0]*pixel[3], pixel[1]*pixel[3], pixel[2]*pixel[3], pixel[3]]
Premultiply(pixel) ==
    [k \in 0..3 |-> IF k = 3 THEN pixel.c[3] ELSE DoubleMul(pixel.c[k], pixel.c[3])]

\* quads.reduce((a, b) => a.map((aC, i) => aC + b[i])), quads not empty
RECURSIVE SumQuads(_, _)
SumQuads(quads, n) ==
    IF n = 1 THEN quads[1]
    ELSE LET a == SumQuads(quads, n - 1)
         IN  [k \in 0..3 |-> DoubleAdd(a[k], quads[n][k])]

\* numbers.reduce((a, b) => a + b), numbers not empty
RECURSIVE SumNumbers(_, _)
SumNumbers(numbers, n) ==
    IF n = 1 THEN numbers[1]
    ELSE DoubleAdd(SumNumbers(numbers, n - 1), numbers[n])

\* an alpha that is the mean over the pixels that are not masked
CellAlphaOverKept(flat) ==
    LET kept == SelectSeq(flat, LAMBDA p : p.type # "null")
        alphas == [k \in 1..Len(kept) |-> kept[k].c[3]]
    IN  DoubleDiv(SumNumbers(alphas, Len(alphas)), ToDouble(Len(kept)))

\* flat.map((pixel) => pixel ? pixel[3] : 0).reduce((a, b) => a + b) / flat.length
CellAlpha(flat) ==
    LET alphas == [k \in 1..Len(flat) |->
                      IF flat[k].type # "null" THEN flat[k].c[3] ELSE DoubleZero]
    IN  DoubleDiv(SumNumbers(alphas, Len(alphas)), ToDouble(Len(flat)))

ZeroMean == <<DoubleZero, DoubleZero, DoubleZero, DoubleZero>>

\* a mean whose alpha is the premultiplied one, divided by pixels.length
CellMeanWithPremultipliedAlpha(cell, pixelsLength) ==
    LET Unpremultiplied(mean, flat) ==
            IF DoublePositive(mean[3])
            THEN <<DoubleDiv(mean[0], mean[3]), DoubleDiv(mean[1], mean[3]),
                   DoubleDiv(mean[2], mean[3]), mean[3]>>
            ELSE ZeroMean
        premultipliedAlphaMean(sum) ==
            [k \in 0..3 |-> DoubleDiv(sum[k], ToDouble(pixelsLength))]
        premultiplied(flatPixels) ==
            [k \in 1..Len(flatPixels) |-> Premultiply(flatPixels[k])]
        Mean(flat, flatPixels) ==
            IF Len(flatPixels) = 0 THEN ZeroMean
            ELSE Unpremultiplied(
                     premultipliedAlphaMean(SumQuads(premultiplied(flatPixels),
                                                     Len(flatPixels))),
                     flat)
        Kept(flat) == Mean(flat, SelectSeq(flat, LAMBDA p : p.type # "null"))
    IN  Kept(Flat(cell))

\* the mean of one cell; pixelsLength is pixels.length, the number of rows
\* of the grid
CellMean(cell, pixelsLength) ==
    LET Unpremultiplied(mean, flat) ==
            IF DoublePositive(mean[3])
            THEN <<DoubleDiv(mean[0], mean[3]), DoubleDiv(mean[1], mean[3]),
                   DoubleDiv(mean[2], mean[3]), CellAlpha(flat)>>
            ELSE ZeroMean
        premultipliedAlphaMean(sum) ==
            [k \in 0..3 |-> DoubleDiv(sum[k], ToDouble(pixelsLength))]
        premultiplied(flatPixels) ==
            [k \in 1..Len(flatPixels) |-> Premultiply(flatPixels[k])]
        Mean(flat, flatPixels) ==
            IF Len(flatPixels) = 0 THEN ZeroMean
            ELSE Unpremultiplied(
                     premultipliedAlphaMean(SumQuads(premultiplied(flatPixels),
                                                     Len(flatPixels))),
                     flat)
        Kept(flat) == Mean(flat, SelectSeq(flat, LAMBDA p : p.type # "null"))
    IN  Kept(Flat(cell))

\* the cells readCells hands back, each pixel through maskPixel
MaskedCells(picture, buffer, masks, maskEpsilon) ==
    LET read == ReadCells(picture, buffer.cellSize, buffer.cellCount,
                          buffer.width, buffer.height, "none")
    IN  [gridRow \in DOMAIN read |-> [gridColumn \in DOMAIN read[gridRow] |->
        [cellRow \in DOMAIN read[gridRow][gridColumn] |->
        [cellColumn \in DOMAIN read[gridRow][gridColumn][cellRow] |->
            MaskPixel(masks, maskEpsilon,
                      read[gridRow][gridColumn][cellRow][cellColumn])]]]]

\* computeCellMeans(context, processingBuffer, image, masks, maskEpsilon);
\* `picture` is what drawing the image leaves in the buffer
ComputeCellMeans(g, c, buffer, image, picture, masks, maskEpsilon) ==
    LET Means(pixels) ==
            [gridRow \in DOMAIN pixels |-> [gridColumn \in DOMAIN pixels[gridRow] |->
                CellMean(pixels[gridRow][gridColumn], Cardinality(DOMAIN pixels))]]
        Drawn(enabled) ==
            [gl |-> UseProgram(BindTexture(enabled.gl, image.texture), c.redrawProgram),
             buffer |-> enabled.buffer,
             means |-> Means(MaskedCells(picture, buffer, masks, maskEpsilon))]
    IN  Drawn(IF ~buffer.enabled THEN Enable(g, buffer)
              ELSE [gl |-> g, buffer |-> buffer])

(***************************************************************************)
(* computeGlyphDcts.  The glyph atlas is drawn with a 2D canvas context:   *)
(* [canvas |-> [width, height], font, textAlign, textBaseline, fillStyle,  *)
(* rects, texts], rects and texts being the fillRect and fillText calls    *)
(* made on the bitmap since it was last cleared.  Setting the width or the *)
(* height of a canvas clears its bitmap and resets its context to the      *)
(* default state.                                                          *)
(***************************************************************************)
DefaultFont == <<"1", "0", "p", "x", " ", "s", "a", "n", "s", "-", "s", "e", "r", "i", "f">>

\* document.createElement("canvas").getContext("2d")
FreshDrawing ==
    [canvas |-> [width |-> 300, height |-> 150], font |-> DefaultFont,
     textAlign |-> "start", textBaseline |-> "alphabetic", fillStyle |-> "#000000",
     rects |-> <<>>, texts |-> <<>>]

\* ctx.canvas.width = width
SetCanvasWidth(d, width) ==
    [FreshDrawing EXCEPT !.canvas = [width |-> width, height |-> d.canvas.height]]

\* ctx.canvas.height = height
SetCanvasHeight(d, height) ==
    [FreshDrawing EXCEPT !.canvas = [width |-> d.canvas.width, height |-> height]]

\* `${Math.min(...cellSize)}px monospace`
GlyphFont(cellSize) ==
    IntToString(IF cellSize[1] <= cellSize[2] THEN cellSize[1] ELSE cellSize[2])
        \o <<"p", "x", " ", "m", "o", "n", "o", "s", "p", "a", "c", "e">>

\* ctx.font, ctx.textAlign and ctx.textBaseline set to a valid value
SetTextState(d, font, textAlign, textBaseline) ==
    [d EXCEPT !.font = font, !.textAlign = textAlign, !.textBaseline = textBaseline]

\* ctx.fillStyle = 'black' / 'white'; the context keeps the serialized color
SetFillStyle(d, color) ==
    [d EXCEPT !.fillStyle = IF color = "black" THEN "#000000" ELSE "#ffffff"]

\* ctx.fillRect(x, y, width, height)
FillRect(d, x, y, width, height) ==
    [d EXCEPT !.rects = Append(@, [fillStyle |-> d.fillStyle, x |-> x, y |-> y,
                                   width |-> width, height |-> height])]

\* ctx.fillText(text, x, y)
FillText(d, text, x, y) ==
    [d EXCEPT !.texts = Append(@, [text |-> text, fillStyle |-> d.fillStyle,
                                   textAlign |-> d.textAlign,
                                   textBaseline |-> d.textBaseline,
                                   x |-> x, y |-> y])]

\* character.length: strings and arrays have one, a number has none
LengthProperty(character) ==
    IF character.type = "string" THEN JsNumber(Len(character.chars), 1)
    ELSE IF character.type = "array" THEN JsNumber(Len(character.elems), 1)
    ELSE Undefined

\* length != 1
IsNotOne(length) ==
    LET n == ToNumeric(length)
    IN  n.type = "NaN" \/ n.num # n.den

\* a check of the elements that looks at their length only
CharacterCheckLengthOnly(character) ==
    IF character.type \in {"null", "undefined"} THEN "TypeError"
    ELSE IF IsNotOne(LengthProperty(character))
    THEN "character parameter was not a length-1 string"
    ELSE "none"

\* character.length != 1 || typeof character !== 'string': what is thrown
\* for one element ("none" when nothing is); null and undefined have no
\* properties to read
CharacterCheck(character) ==
    IF character.type \in {"null", "undefined"} THEN "TypeError"
    ELSE IF IsNotOne(LengthProperty(character)) \/ character.type # "string"
    THEN "character parameter was not a length-1 string"
    ELSE "none"

\* for (const character of characters) ...: what the first element that
\* fails the check throws
CheckCharacters(characters) ==
    LET failing == {i \in 1..Len(characters) : CharacterCheck(characters[i]) # "none"}
    IN  IF failing = {} THEN "none"
        ELSE CharacterCheck(characters[CHOOSE i \in failing : \A j \in failing : i <= j])

\* Math.ceil(Math.sqrt(n))
CeilSqrt(n) == CHOOSE g \in 0..n : g * g >= n /\ \A h \in 0..(g - 1) : h * h < n

Lights == JsString(<<"l", "i", "g", "h", "t", "s">>)
Darks == JsString(<<"d", "a", "r", "k", "s">>)

\* switch (valueCheck): the case taken
ValueCheckCase(valueCheck) ==
    IF valueCheck.type = "string" /\ valueCheck.chars = Lights.chars THEN "lights"
    ELSE IF valueCheck.type = "string" /\ valueCheck.chars = Darks.chars THEN "darks"
    ELSE IF valueCheck.type = "null" THEN "null"
    ELSE "default"

\* what the case of a switch throws
ValueCheckError(case) ==
    IF case = "null" THEN "missing value check at glyph DCT computation"
    ELSE IF case = "default" THEN "unrecognized value check"
    ELSE "none"

\* an atlas filled column after column
AtlasCellColumnMajor(index, gridSize) ==
    [column |-> index \div gridSize, row |-> index % gridSize]

\* column = index % gridSize, row = Math.floor(index/gridSize)
AtlasCell(index, gridSize) ==
    [column |-> index % gridSize, row |-> index \div gridSize]

\* for (const [index, character] of characters.entries()) ctx.fillText(...),
\* from the entry `index` on
RECURSIVE FillTexts(_, _, _, _, _)
FillTexts(d, characters, gridSize, cellSize, index) ==
    IF index >= Len(characters) THEN d
    ELSE LET cell == AtlasCell(index, gridSize)
             centerX == JsNumber((2 * cell.column + 1) * cellSize[1], 2)
             centerY == JsNumber((2 * cell.row + 1) * cellSize[2], 2)
         IN  FillTexts(FillText(d, characters[index + 1], centerX, centerY),
                       characters, gridSize, cellSize, index + 1)

\* array.slice(0, end)
SliceFromStart(array, end) ==
    SubSeq(array, 1, IF end <= Len(array) THEN end ELSE Len(array))

\* the result of a computeGlyphDcts call: the device, the Context, the
\* caller's drawing context and the canvas drawn on after the call, what was
\* thrown ("none" when nothing was) and, on a return, the signatures
GlyphResult(g, c, d, canvas, error) ==
    [gl |-> g, ctx |-> c, drawing |-> d, canvas |-> canvas, error |-> error]

\* computeGlyphDcts(context, cellSize, valueCheck, characters,
\* glyphDrawingContext).  `given` tells whether glyphDrawingContext is a
\* CanvasRenderingContext2D, `d` is that context, `outcome` is the device's
\* answer to the compileShaders call, and `picture` is what the DCT draw
\* leaves in the atlas buffer.
ComputeGlyphDcts(g, c, d, cellSize, valueCheck, characters, given, outcome, picture) ==
    LET Caller(canvas) == IF given THEN canvas ELSE d
        gridSize == CeilSqrt(Len(characters))
        size == <<cellSize.v[1] * gridSize, cellSize.v[2] * gridSize>>
        d1 == SetTextState(
                  SetCanvasHeight(
                      SetCanvasWidth(IF given THEN d ELSE FreshDrawing, size[1]),
                      size[2]),
                  GlyphFont(cellSize.v), "center", "middle")
        case == ValueCheckCase(valueCheck)
        d2 == FillRect(SetFillStyle(d1, IF case = "lights" THEN "black" ELSE "white"),
                       0, 0, size[1], size[2])
        d3 == FillTexts(SetFillStyle(d2, IF case = "lights" THEN "white" ELSE "black"),
                        characters, gridSize, cellSize.v, 0)
        result == ProcessingBufferConstructor(g, cellSize.v, <<gridSize, gridSize>>, TRUE)
        glyphAtlas == result.gl.nextId
        g1 == TexImage2DSource(BindTexture(CreateTexture(result.gl), glyphAtlas), size)
        used == UseDctProgram(g1, c, cellSize, outcome)
        resultCells == ReadCells(picture, cellSize.v, <<gridSize, gridSize>>,
                                 result.buffer.width, result.buffer.height, "dct")
    IN  IF CheckCharacters(characters) # "none"
        THEN GlyphResult(g, c, d, d, CheckCharacters(characters))
        ELSE IF ValueCheckError(case) # "none"
        THEN GlyphResult(g, c, Caller(d1), d1, ValueCheckError(case))
        ELSE IF result.threw
        THEN GlyphResult(result.gl, c, Caller(d3), d3, "ProcessingBuffer")
        ELSE IF used.error # "none"
        THEN GlyphResult(used.gl, used.ctx, Caller(d3), d3, used.error)
                 @@ [buffer |-> result.buffer]
        ELSE GlyphResult(used.gl, used.ctx, Caller(d3), d3, "none")
                 @@ [buffer |-> result.buffer,
                     signatures |-> SliceFromStart(Flat(resultCells), Len(characters))]

(***************************************************************************)
(* The draws of the passes.  uniform2f sets a uniform of the program in    *)
(* use; a draw renders into the bound framebuffer, sampling the bound      *)
(* texture, with the program in use and the uniforms that program holds.   *)
(***************************************************************************)
\* a / b of two natural numbers
JsDivide(a, b) ==
    IF b # 0 THEN DoubleDiv(ToDouble(a), ToDouble(b))
    ELSE IF a = 0 THEN [special |-> "NaN"] ELSE [special |-> "Infinity"]

\* gl.uniform2f(gl.getUniformLocation(program, name), x, y): the location
\* has to be one of the program in use, or nothing is set
Uniform2f(g, program, name, x, y) ==
    IF program = 0 \/ g.currentProgram # program THEN g
    ELSE [g EXCEPT !.uniforms = MapSet(@, <<program, name>>, <<x, y>>)]

\* the value a vec2 uniform of a program holds: (0, 0) until it is set
UniformValue(g, program, name) ==
    IF <<program, name>> \in DOMAIN g.uniforms THEN g.uniforms[<<program, name>>]
    ELSE <<DoubleZero, DoubleZero>>

\* context.drawFrame(): what the clear and the draw work with
DrawFrame(g) ==
    [framebuffer |-> g.boundFramebuffer, texture |-> g.boundTexture,
     program |-> g.currentProgram, viewport |-> g.viewport,
     pixelSize |-> UniformValue(g, g.currentProgram, "pixelSize"),
     cellSize |-> UniformValue(g, g.currentProgram, "cellSize")]

(***************************************************************************)
(* Image                                                                   *)
(***************************************************************************)
cellSizeConstant == 8

\* Math.round(num / den) of a quotient of natural numbers: halves round up
RoundRatio(num, den) == (2 * num + den) \div (2 * den)

\* new Image(context, img, cellCount), img of natural size naturalSize.
\* cellAspect is (naturalWidth/cellCount[0]) / (naturalHeight/cellCount[1]),
\* here the quotient aspectNum / aspectDen of natural numbers.
ImageConstructor(g, c, naturalSize, cellCount) ==
    LET aspectNum == naturalSize[1] * cellCount[2]
        aspectDen == naturalSize[2] * cellCount[1]
        cellSize == IF aspectNum >= aspectDen
                    THEN <<RoundRatio(cellSizeConstant * aspectNum, aspectDen),
                           cellSizeConstant>>
                    ELSE <<cellSizeConstant,
                           RoundRatio(cellSizeConstant * aspectDen, aspectNum)>>
        scaledWidth == cellSize[1] * cellCount[1]
        scaledHeight == cellSize[2] * cellCount[2]
        texture == g.nextId
        framebuffer == g.nextId + 1
        originTexture == g.nextId + 2
        g1 == TexImage2D(BindTexture(CreateTexture(g), texture), scaledWidth, scaledHeight)
        g2 == FramebufferTexture2D(
                  BindFramebuffer(CreateFramebuffer(g1), framebuffer), texture)
        g3 == Viewport(g2, 0, 0, scaledWidth, scaledHeight)
        g4 == TexImage2DSource(BindTexture(CreateTexture(g3), originTexture), naturalSize)
        Drawn(g5) == [gl |-> BindTexture(BindFramebuffer(g5, 0), 0),
                      image |-> [cellCount |-> cellCount, cellSize |-> cellSize,
                                 texture |-> texture],
                      draw |-> DrawFrame(g5)]
    IN  Drawn(UseProgram(g4, c.redrawProgram))

(***************************************************************************)
(* computeImageSobel and computeImageDct                                   *)
(***************************************************************************)
\* Math.sqrt(2)
Sqrt2 == [m |-> <<15309, 6652, 2534, 1448>>, e |-> -52]

\* the decoder of computeImageSobel
SobelPixel(pixel) ==
    [gradient |-> <<ByteOver255[pixel[0]], ByteOver255[pixel[1]]>>,
     magnitude |-> DoubleMul(ByteOver255[pixel[2]], Sqrt2)]

\* computeImageSobel(context, processingBuffer, image); `picture` is what
\* the draw leaves to readPixels
ComputeImageSobel(g, c, buffer, image, picture) ==
    LET Read(read) ==
            [gridRow \in DOMAIN read |-> [gridColumn \in DOMAIN read[gridRow] |->
            [cellRow \in DOMAIN read[gridRow][gridColumn] |->
            [cellColumn \in DOMAIN read[gridRow][gridColumn][cellRow] |->
                SobelPixel(read[gridRow][gridColumn][cellRow][cellColumn])]]]]
        Drawn(enabled) ==
            [gl |-> Uniform2f(UseProgram(BindTexture(enabled.gl, image.texture),
                                         c.sobelProgram),
                              c.sobelProgram, "pixelSize",
                              JsDivide(1, buffer.width), JsDivide(1, buffer.height)),
             buffer |-> enabled.buffer,
             cells |-> Read(ReadCells(picture, buffer.cellSize, buffer.cellCount,
                                      buffer.width, buffer.height, "none"))]
    IN  Drawn(IF ~buffer.enabled THEN Enable(g, buffer)
              ELSE [gl |-> g, buffer |-> buffer])

\* computeImageDct(context, image); `outcome` is the device's answer if
\* useDctProgram compiles, `picture` what the draw leaves to readPixels
ComputeImageDct(g, c, image, outcome, picture) ==
    LET cellSize == [v |-> image.cellSize, obj |-> 1]
        WithUniforms(buffer, used, program) ==
            Uniform2f(Uniform2f(used.gl, program, "pixelSize",
                                JsDivide(1, buffer.width), JsDivide(1, buffer.height)),
                      program, "cellSize",
                      JsDivide(buffer.cellSize[1], buffer.width),
                      JsDivide(buffer.cellSize[2], buffer.height))
        Used(buffer, used) ==
            IF used.error # "none"
            THEN [gl |-> used.gl, ctx |-> used.ctx, error |-> used.error,
                  buffer |-> buffer]
            ELSE [gl |-> WithUniforms(buffer, used,
                                      used.ctx.dctPrograms[Join(buffer.cellSize)]),
                  ctx |-> used.ctx, error |-> "none", buffer |-> buffer,
                  cells |-> ReadCells(picture, buffer.cellSize, buffer.cellCount,
                                      buffer.width, buffer.height, "dct")]
        Constructed(result) ==
            IF result.threw THEN [gl |-> result.gl, ctx |-> c, error |-> "ProcessingBuffer"]
            ELSE Used(result.buffer,
                      UseDctProgram(BindTexture(result.gl, image.texture), c,
                                    cellSize, outcome))
    IN  Constructed(ProcessingBufferConstructor(g, image.cellSize, image.cellCount, TRUE))

(***************************************************************************)
(* Specifications                                                          *)
(***************************************************************************)
\* ---- SpecRead: a buffer of any small geometry holding the synthetic image
ReadInit ==
    /\ rCellSize \in (1..MaxCellPx) \X (1..MaxCellPx)
    /\ rCellCount \in (1..MaxCells) \X (1..MaxCells)
    /\ \E shade \in 0..MaxShade :
          rFramebuffer = TaggedFramebuffer(rCellSize[1] * rCellCount[1],
                                           rCellSize[2] * rCellCount[2], shade)
    /\ rCells = [called |-> FALSE]
    /\ gridA = [r \in {0} |-> [c \in {0} |-> 0]]
    /\ gridB = [r \in {0} |-> [c \in {0} |-> 0]]
    /\ heapNext = 0
    /\ dist = [op |-> "none"]
    /\ drawing = FreshDrawing
    /\ images = <<>>
    /\ dctCalls = 0
    /\ gl = [nextId |-> 1]
    /\ ctx = [constructed |-> FALSE]
    /\ keyObjects = <<>>
    /\ buffers = <<>>
    /\ last = [op |-> "none"]
ReadNext == CallReadCells
SpecRead == ReadInit /\ [][ReadNext]_vars

\* ---- SpecDist: any two grids of one shape
DistInit ==
    /\ \E shape \in GridShapes :
          /\ gridA \in Grids(shape)
          /\ gridB \in Grids(shape)
    /\ heapNext = 0
    /\ dist = [op |-> "none"]
    /\ drawing = FreshDrawing
    /\ images = <<>>
    /\ dctCalls = 0
    /\ rCellSize = <<1, 1>>
    /\ rCellCount = <<1, 1>>
    /\ rFramebuffer = <<>>
    /\ rCells = [called |-> FALSE]
    /\ gl = [nextId |-> 1]
    /\ ctx = [constructed |-> FALSE]
    /\ keyObjects = <<>>
    /\ buffers = <<>>
    /\ last = [op |-> "none"]
DistNext ==
    \/ CallDistance
    \/ CallDistanceSelf
    \/ CallDctDistance
    \/ CallSelectBestGlyph
SpecDist == DistInit /\ [][DistNext]_vars

\* ---- the device before anything is constructed on it
GlInitState ==
    /\ gl = [nextId |-> 1, shaders |-> {}, programs |-> {}, textures |-> {},
             framebuffers |-> {}, attached |-> {}, flagged |-> {},
             source |-> <<>>, texImage |-> <<>>, colorAttachment |-> <<>>,
             boundFramebuffer |-> 0, boundTexture |-> 0,
             viewport |-> <<0, 0, 300, 150>>, currentProgram |-> 0,
             uniforms |-> <<>>, maxTextureSize |-> DeviceMaxSize,
             maxViewportDims |-> <<DeviceMaxSize, DeviceMaxSize>>]
    /\ ctx = [constructed |-> FALSE]
    /\ keyObjects = <<>>
    /\ buffers = <<>>
    /\ last = [op |-> "none"]
    /\ rCellSize = <<1, 1>>
    /\ rCellCount = <<1, 1>>
    /\ rFramebuffer = <<>>
    /\ rCells = [called |-> FALSE]
    /\ gridA = [r \in {0} |-> [c \in {0} |-> 0]]
    /\ gridB = [r \in {0} |-> [c \in {0} |-> 0]]
    /\ heapNext = 0
    /\ dist = [op |-> "none"]
    /\ drawing = FreshDrawing
    /\ images = <<>>
    /\ dctCalls = 0

\* ---- SpecGL
\* the last array object of `used` whose key is k
LastWithKey(used, k) ==
    used[CHOOSE i \in 1..Len(used) :
            /\ CacheKey(used[i]) = k
            /\ \A j \in (i + 1)..Len(used) : CacheKey(used[j]) # k]

\* keyObjects after a call that was handed the array objects `used`
KeyObjectsAfter(before, after, used) ==
    [k \in DOMAIN after |->
        IF k \in DOMAIN before /\ before[k] = after[k] THEN keyObjects[k]
        ELSE LastWithKey(used, k)]

DctProgramsOf(c) == IF c.constructed THEN c.dctPrograms ELSE EmptyMap

\* the record of a call: its result, and the state it started from
Record(op, res) ==
    [op |-> op, error |-> res.error, compiles |-> res.compiles,
     failFrom |-> res.failFrom, warnings |-> res.warnings, logs |-> res.logs,
     pre |-> [gl |-> gl, ctx |-> ctx]]

\* a call with result `res`, handed the array objects `used`
Returns(res, used) ==
    /\ gl' = res.gl
    /\ ctx' = res.ctx
    /\ keyObjects' = KeyObjectsAfter(DctProgramsOf(ctx), DctProgramsOf(res.ctx), used)
    /\ UNCHANGED <<buffers, rCellSize, rCellCount, rFramebuffer, rCells,
                   gridA, gridB, heapNext, dist,
                   drawing, images, dctCalls>>

\* compileShaders hands out three objects at most
CanCompile(times) == gl.nextId + 3 * times <= MaxGlObjects + 1

\* no call is under way: the caller has taken the result of the last one
Idle == last.op = "none"

\* the caller takes the result of the call that has just ended
Return ==
    /\ ~Idle
    /\ last' = [op |-> "none"]
    /\ UNCHANGED <<gl, ctx, keyObjects, buffers, rCellSize, rCellCount, rFramebuffer,
                   rCells, gridA, gridB, heapNext, dist,
                   drawing, images, dctCalls>>

ConstructContext ==
    /\ Idle
    /\ ~ctx.constructed
    /\ \E cellSizes \in OptionalCellSizeLists, kind \in CompileOutcomes \ {"ok"} :
          LET n == IF cellSizes.given THEN Len(cellSizes.list) ELSE 0
          IN  /\ CanCompile(2 + n)
              /\ \E failAt \in 0..(2 + n) :
                    LET res == ContextConstructor(gl, cellSizes, failAt, kind)
                    IN  /\ Returns(res, IF cellSizes.given THEN cellSizes.list ELSE <<>>)
                        /\ last' = [Record("Context", res) EXCEPT !.pre = [gl |-> gl]]
                                      @@ [cellSizes |-> cellSizes]

\* the answers the device can give to the compileShaders call of
\* addCellSize(cellSize) / useDctProgram(cellSize), if the call makes one
OutcomesFor(cellSize, validated) ==
    IF CacheKey(cellSize) \in DOMAIN ctx.dctPrograms
          \/ (validated /\ ~isCellSize(cellSize.v))
    THEN {"ok"} ELSE CompileOutcomes

CallAddCellSize ==
    /\ Idle
    /\ ctx.constructed
    /\ CanCompile(1)
    /\ \E cellSize \in CellSizeObjects :
       \E outcome \in OutcomesFor(cellSize, TRUE) :
          LET res == AddCellSize(gl, ctx, cellSize, outcome)
          IN  /\ Returns(res, <<cellSize>>)
              /\ last' = Record("addCellSize", res) @@ [cellSize |-> cellSize]

CallClearDctPrograms ==
    /\ Idle
    /\ ctx.constructed
    /\ \E cellSizes \in OptionalCellSizeLists :
          LET res == ClearDctPrograms(gl, ctx, cellSizes)
          IN  /\ Returns(res, <<>>)
              /\ last' = Record("clearDctPrograms", res) @@ [cellSizes |-> cellSizes]

CallUseDctProgram ==
    /\ Idle
    /\ ctx.constructed
    /\ CanCompile(1)
    /\ \E cellSize \in CellSizeObjects :
       \E outcome \in OutcomesFor(cellSize, FALSE) :
          LET res == UseDctProgram(gl, ctx, cellSize, outcome)
          IN  /\ Returns(res, <<cellSize>>)
              /\ last' = Record("useDctProgram", res) @@ [cellSize |-> cellSize]

GlNext ==
    \/ ConstructContext
    \/ CallAddCellSize
    \/ CallClearDctPrograms
    \/ CallUseDctProgram
    \/ Return
SpecGL == GlInitState /\ [][GlNext]_vars

\* ---- SpecBuffer
ConstructProcessingBuffer ==
    \E cellSize \in CellSizeValues, cellCount \in CellSizeValues, enabled \in BOOLEAN :
        LET res == ProcessingBufferConstructor(gl, cellSize, cellCount, enabled)
        IN  /\ Idle
            /\ Len(buffers) < MaxBuffers \/ res.threw
            /\ gl' = res.gl
            /\ buffers' = IF res.threw THEN buffers ELSE Append(buffers, res.buffer)
            /\ last' = [op |-> "ProcessingBuffer", cellSize |-> cellSize,
                        cellCount |-> cellCount, enabled |-> enabled,
                        threw |-> res.threw, pre |-> [gl |-> gl]]
            /\ UNCHANGED <<ctx, keyObjects, rCellSize, rCellCount, rFramebuffer, rCells,
                           gridA, gridB, heapNext, dist,
                           drawing, images, dctCalls>>

\* the variables a call on a constructed ProcessingBuffer leaves alone
BufferFrame == <<ctx, keyObjects, rCellSize, rCellCount, rFramebuffer, rCells,
                 gridA, gridB, heapNext, dist,
                 drawing, images, dctCalls>>

\* ProcessingBuffer.enable() of the buffer constructed i-th
CallEnable ==
    \E i \in DOMAIN buffers :
        LET res == Enable(gl, buffers[i])
        IN  /\ Idle
            /\ gl' = res.gl
            /\ buffers' = [buffers EXCEPT ![i] = res.buffer]
            /\ last' = [op |-> "enable", index |-> i, pre |-> [gl |-> gl]]
            /\ UNCHANGED BufferFrame

\* ProcessingBuffer.disable() of the buffer constructed i-th
CallDisable ==
    \E i \in DOMAIN buffers :
        LET res == Disable(gl, buffers[i])
        IN  /\ Idle
            /\ gl' = res.gl
            /\ buffers' = [buffers EXCEPT ![i] = res.buffer]
            /\ last' = [op |-> "disable", index |-> i, pre |-> [gl |-> gl]]
            /\ UNCHANGED BufferFrame

BufferNext ==
    \/ ConstructProcessingBuffer
    \/ CallEnable
    \/ CallDisable
    \/ Return
SpecBuffer == GlInitState /\ [][BufferNext]_vars


\* ---- SpecImage
CallFullImage ==
    \E naturalSize \in (1..MaxImagePx) \X (1..MaxImagePx), sizeLimit \in SizeLimits :
        LET res == FullImageConstructor(gl, naturalSize, sizeLimit)
        IN  /\ Idle
            /\ Cardinality(gl.textures) < MaxImages
            /\ gl' = res.gl
            /\ last' = [op |-> "FullImage", naturalSize |-> naturalSize,
                        sizeLimit |-> sizeLimit, image |-> res.image,
                        pre |-> [gl |-> gl]]
            /\ UNCHANGED <<ctx, keyObjects, buffers, rCellSize, rCellCount,
                           rFramebuffer, rCells, gridA, gridB, heapNext, dist,
                           drawing, images, dctCalls>>

ImageNext ==
    \/ CallFullImage
    \/ Return
SpecImage == GlInitState /\ [][ImageNext]_vars

\* ---- SpecMeans: computeCellMeans on a context, a buffer and an image
FreshDevice ==
    [nextId |-> 1, shaders |-> {}, programs |-> {}, textures |-> {},
     framebuffers |-> {}, attached |-> {}, flagged |-> {},
     source |-> <<>>, texImage |-> <<>>, colorAttachment |-> <<>>,
     boundFramebuffer |-> 0, boundTexture |-> 0,
     viewport |-> <<0, 0, 300, 150>>, currentProgram |-> 0,
     uniforms |-> <<>>, maxTextureSize |-> DeviceMaxSize,
     maxViewportDims |-> <<DeviceMaxSize, DeviceMaxSize>>]

\* new Context(canvas), new ProcessingBuffer(gl, cellSize, cellCount, false)
\* and new FullImage(context, img), img of the size of the buffer
MeansWorld(cellSize, cellCount) ==
    LET World(context, buffer, image) ==
            [gl |-> image.gl, ctx |-> context.ctx, buffer |-> buffer.buffer,
             image |-> image.image]
        WithBuffer(context, buffer) ==
            World(context, buffer,
                  FullImageConstructor(buffer.gl,
                                       <<buffer.buffer.width, buffer.buffer.height>>,
                                       JsNumber(MaxLimit, 1)))
        WithContext(context) ==
            WithBuffer(context,
                       ProcessingBufferConstructor(context.gl, cellSize, cellCount, FALSE))
    IN  WithContext(ContextConstructor(FreshDevice, [given |-> FALSE], 0, "vertex"))

Pixel(r, g, b, a) == [k \in 0..3 |-> <<r, g, b, a>>[k + 1]]

\* the pixels of the pictures: opaque black, a translucent near-black, opaque
\* white, and an opaque color whose components differ
PixelValues ==
    {Pixel(0, 0, 0, 255),
     Pixel(MaxByte - 2, MaxByte - 2, MaxByte - 2, MaxByte - 2),
     Pixel(255, 255, 255, 255), Pixel(255, MaxByte, 0, 255)}

\* the buffers: those of MaxFreePixels pixels at most, and the largest
\* square grid of the largest square cells
MeanGeometries ==
    {geometry \in [cellSize : (1..MaxCellPx) \X (1..MaxCellPx),
                   cellCount : (1..MaxCells) \X (1..MaxMeanRows)] :
        \/ geometry.cellSize[1] * geometry.cellSize[2]
             * geometry.cellCount[1] * geometry.cellCount[2] <= MaxFreePixels
        \/ /\ geometry.cellSize = <<MaxCellPx, MaxCellPx>>
           /\ geometry.cellCount = <<MaxCells, MaxCells>>}

\* a checkerboard of cells, a and b alternating
Checkerboard(cellSize, cellCount, a, b) ==
    [x \in 0..(cellSize[1] * cellCount[1] - 1) |->
        [y \in 0..(cellSize[2] * cellCount[2] - 1) |->
            IF ((x \div cellSize[1]) + (y \div cellSize[2])) % 2 = 0 THEN a ELSE b]]

\* the pictures drawn into a buffer: every picture of a buffer of
\* MaxFreePixels pixels at most, the checkerboards of a larger one
Pictures(cellSize, cellCount) ==
    LET width == cellSize[1] * cellCount[1]
        height == cellSize[2] * cellCount[2]
    IN  IF width * height <= MaxFreePixels
        THEN [0..(width - 1) -> [0..(height - 1) -> PixelValues]]
        ELSE {Checkerboard(cellSize, cellCount, a, b) : a, b \in PixelValues}

MaskColors == {<<0, 0, 0>>, <<255, 255, 255>>}

\* the masks argument: left out, or a list of colors, darkest first
MaskArguments ==
    {[given |-> FALSE]}
        \cup {[given |-> TRUE, list |-> l] :
                l \in {list \in UNION {[1..n -> MaskColors] : n \in 0..MaxMasks} :
                         \A i, j \in DOMAIN list : i < j => list[i][1] < list[j][1]}}

\* the maskEpsilon argument: left out, or 0
EpsilonArguments == {Undefined, JsNumber(0, 1)}

MeansInit ==
    /\ rCellSize \in (1..MaxCellPx) \X (1..MaxCellPx)
    /\ rCellCount \in (1..MaxCells) \X (1..MaxMeanRows)
    /\ [cellSize |-> rCellSize, cellCount |-> rCellCount] \in MeanGeometries
    /\ rFramebuffer \in Pictures(rCellSize, rCellCount)
    /\ \E world \in {MeansWorld(rCellSize, rCellCount)} :
          /\ gl = world.gl
          /\ ctx = world.ctx
          /\ buffers = <<world.buffer>>
    /\ keyObjects = <<>>
    /\ last = [op |-> "none"]
    /\ rCells = [called |-> FALSE]
    /\ gridA = [r \in {0} |-> [c \in {0} |-> 0]]
    /\ gridB = [r \in {0} |-> [c \in {0} |-> 0]]
    /\ heapNext = 0
    /\ dist = [op |-> "none"]
    /\ drawing = FreshDrawing
    /\ images = <<>>
    /\ dctCalls = 0

CallComputeCellMeans ==
    \E masks \in MaskArguments, maskEpsilon \in EpsilonArguments :
        LET Ends(res) ==
                /\ gl' = res.gl
                /\ buffers' = <<res.buffer>>
                /\ last' = [op |-> "computeCellMeans", masks |-> masks,
                            maskEpsilon |-> maskEpsilon, means |-> res.means]
        IN  /\ Idle
            /\ Ends(ComputeCellMeans(gl, ctx, buffers[1],
                                     MeansWorld(rCellSize, rCellCount).image,
                                     rFramebuffer, masks, maskEpsilon))
            /\ UNCHANGED BufferFrame

MeansNext ==
    \/ CallComputeCellMeans
    \/ Return
SpecMeans == MeansInit /\ [][MeansNext]_vars

\* ---- SpecGlyph: computeGlyphDcts on a Context whose cache is empty or holds
\* the program of one cell size, with and without a drawing context of the
\* caller's
ListedGlyphCellSize == [v |-> <<1, 1>>, obj |-> 1]

\* new Context(canvas) or new Context(canvas, [[1, 1]])
GlyphWorld(listed) ==
    ContextConstructor(FreshDevice,
                       IF listed THEN [given |-> TRUE, list |-> <<ListedGlyphCellSize>>]
                       ELSE [given |-> FALSE],
                       0, "vertex")

GlyphCellSizes == [v : (1..MaxGlyphPx) \X (1..MaxGlyphPx), obj : {1}]

\* the elements of a character set: one-character strings, and the empty
\* string, a longer string, a number, a one-element array, null, undefined
ValidCharacters == {JsString(<<".">>), JsString(<<"@">>)}
InvalidCharacters ==
    {JsString(<<>>), JsString(<<".", "@">>), JsNumber(7, 1), JsArray(0, <<7>>, 1),
     Null, Undefined}

\* the character sets, of 1 to MaxChars elements: one-character strings of
\* which no two neighbours are equal, and "." at every place but one, where
\* an invalid element is
CharacterSets ==
    {characters \in UNION {[1..n -> ValidCharacters] : n \in 1..MaxChars} :
        \A i \in 1..(Len(characters) - 1) : characters[i] # characters[i + 1]}
    \cup UNION {{[i \in 1..n |-> IF i = at THEN invalid ELSE JsString(<<".">>)] :
                    at \in 1..n, invalid \in InvalidCharacters} : n \in 1..MaxChars}

\* the polarity flags: the two that are recognized, null, undefined, another
ValueChecks == {Lights, Darks, Null, Undefined, JsString(<<"l", "i", "g", "h", "t">>)}

\* does the call reach its useDctProgram call
ReachesDctProgram(cellSize, valueCheck, characters) ==
    /\ CheckCharacters(characters) = "none"
    /\ ValueCheckError(ValueCheckCase(valueCheck)) = "none"
    /\ isCellSize(cellSize.v)

\* the answers the device can give to the compileShaders call, if one is made
GlyphOutcomes(cellSize, valueCheck, characters) ==
    IF ReachesDctProgram(cellSize, valueCheck, characters)
          /\ CacheKey(cellSize) \notin DOMAIN ctx.dctPrograms
    THEN CompileOutcomes ELSE {"ok"}

\* what a DCT draw leaves in a buffer: (dct, 0, 0, 1) in every pixel, here
\* a red byte that tells the pixels apart
DctPicture(width, height, shade) ==
    [x \in 0..(width - 1) |-> [y \in 0..(height - 1) |->
        Pixel(shade + x + y * width, 0, 0, 255)]]

GlyphInit ==
    /\ gl \in {GlyphWorld(listed).gl : listed \in BOOLEAN}
    /\ ctx \in {GlyphWorld(listed).ctx : listed \in {l \in BOOLEAN : GlyphWorld(l).gl = gl}}
    /\ keyObjects = [k \in DOMAIN ctx.dctPrograms |-> ListedGlyphCellSize]
    /\ buffers = <<>>
    /\ last = [op |-> "none"]
    /\ rCellSize = <<1, 1>>
    /\ rCellCount = <<1, 1>>
    /\ rFramebuffer = <<>>
    /\ rCells = [called |-> FALSE]
    /\ gridA = [r \in {0} |-> [c \in {0} |-> 0]]
    /\ gridB = [r \in {0} |-> [c \in {0} |-> 0]]
    /\ heapNext = 0
    /\ dist = [op |-> "none"]
    /\ drawing = FreshDrawing
    /\ images = <<>>
    /\ dctCalls = 0

CallComputeGlyphDcts ==
    /\ Idle
    /\ Cardinality(gl.textures) + 2 <= MaxGlyphTextures
    /\ \E cellSize \in GlyphCellSizes, valueCheck \in ValueChecks,
          characters \in CharacterSets, given \in BOOLEAN :
       \E outcome \in GlyphOutcomes(cellSize, valueCheck, characters),
          shade \in {0, MaxShade} :
          LET gridSize == CeilSqrt(Len(characters))
              picture == DctPicture(cellSize.v[1] * gridSize, cellSize.v[2] * gridSize,
                                    shade)
              res == ComputeGlyphDcts(gl, ctx, drawing, cellSize, valueCheck,
                                      characters, given, outcome, picture)
              drew == res.error = "none"
          IN  /\ drew \/ shade = 0
              /\ gl' = res.gl
              /\ ctx' = res.ctx
              /\ drawing' = res.drawing
              /\ keyObjects' = KeyObjectsAfter(DctProgramsOf(ctx), DctProgramsOf(res.ctx),
                                               <<cellSize>>)
              /\ buffers' = IF "buffer" \in DOMAIN res THEN Append(buffers, res.buffer)
                            ELSE buffers
              /\ rCellSize' = IF drew THEN cellSize.v ELSE rCellSize
              /\ rCellCount' = IF drew THEN <<gridSize, gridSize>> ELSE rCellCount
              /\ rFramebuffer' = IF drew THEN picture ELSE rFramebuffer
              /\ last' = [op |-> "computeGlyphDcts", cellSize |-> cellSize,
                          valueCheck |-> valueCheck, characters |-> characters,
                          given |-> given, error |-> res.error, canvas |-> res.canvas,
                          signatures |-> IF drew THEN res.signatures ELSE <<>>,
                          pre |-> [gl |-> gl, ctx |-> ctx, drawing |-> drawing]]
              /\ UNCHANGED <<rCells, gridA, gridB, heapNext, dist, images, dctCalls>>

GlyphNext ==
    \/ CallComputeGlyphDcts
    \/ Return
SpecGlyph == GlyphInit /\ [][GlyphNext]_vars

\* ---- SpecLimit: new Context on devices of every small maximum texture size
\* and maximum viewport width and height
LimitInit ==
    /\ \E maxTextureSize \in 1..MaxLimit, maxViewportDims \in (1..MaxLimit) \X (1..MaxLimit) :
          gl = [FreshDevice EXCEPT !.maxTextureSize = maxTextureSize,
                                   !.maxViewportDims = maxViewportDims]
    /\ ctx = [constructed |-> FALSE]
    /\ keyObjects = <<>>
    /\ buffers = <<>>
    /\ last = [op |-> "none"]
    /\ rCellSize = <<1, 1>>
    /\ rCellCount = <<1, 1>>
    /\ rFramebuffer = <<>>
    /\ rCells = [called |-> FALSE]
    /\ gridA = [r \in {0} |-> [c \in {0} |-> 0]]
    /\ gridB = [r \in {0} |-> [c \in {0} |-> 0]]
    /\ heapNext = 0
    /\ dist = [op |-> "none"]
    /\ drawing = FreshDrawing
    /\ images = <<>>
    /\ dctCalls = 0
LimitNext ==
    \/ ConstructContext
    \/ Return
SpecLimit == LimitInit /\ [][LimitNext]_vars

\* ---- SpecPasses: ProcessingBuffers, Images, enable, disable and the passes
\* on one Context, in any order
PassInit ==
    /\ \E world \in {GlyphWorld(FALSE)} :
          /\ gl = world.gl
          /\ ctx = world.ctx
    /\ keyObjects = <<>>
    /\ buffers = <<>>
    /\ images = <<>>
    /\ dctCalls = 0
    /\ last = [op |-> "none"]
    /\ rCellSize = <<1, 1>>
    /\ rCellCount = <<1, 1>>
    /\ rFramebuffer = <<>>
    /\ rCells = [called |-> FALSE]
    /\ gridA = [r \in {0} |-> [c \in {0} |-> 0]]
    /\ gridB = [r \in {0} |-> [c \in {0} |-> 0]]
    /\ heapNext = 0
    /\ dist = [op |-> "none"]
    /\ drawing = FreshDrawing

\* the variables the passes leave alone
PassFrame == <<rCellSize, rCellCount, rFramebuffer, rCells, gridA, gridB, heapNext,
               dist, drawing>>

\* the device can hand out `count` more objects
CanCreate(count) == gl.nextId + count <= MaxPassObjects + 1

\* new Image(context, img, cellCount): one row of cells, of an image one
\* pixel high
ConstructImage ==
    \E naturalWidth \in 1..MaxImageCells, columns \in 1..MaxImageCells :
        LET Ends(res) ==
                /\ gl' = res.gl
                /\ images' = Append(images, res.image)
                /\ last' = [op |-> "Image", naturalSize |-> <<naturalWidth, 1>>,
                            cellCount |-> <<columns, 1>>, draw |-> res.draw,
                            pre |-> [gl |-> gl]]
        IN  /\ Idle
            /\ Len(images) < MaxPassImages
            /\ CanCreate(3)
            /\ Ends(ImageConstructor(gl, ctx, <<naturalWidth, 1>>, <<columns, 1>>))
            /\ UNCHANGED <<ctx, keyObjects, buffers, dctCalls>>
            /\ UNCHANGED PassFrame

\* a picture of one color, black or white
PassPictures(width, height) ==
    {[x \in 0..(width - 1) |-> [y \in 0..(height - 1) |-> Pixel(v, v, v, 255)]] :
        v \in {0, 255}}

\* computeCellMeans(context, buffers[i], images[j])
PassComputeCellMeans ==
    \E i \in DOMAIN buffers, j \in DOMAIN images :
    \E picture \in PassPictures(buffers[i].width, buffers[i].height) :
        LET Ends(res) ==
                /\ gl' = res.gl
                /\ buffers' = [buffers EXCEPT ![i] = res.buffer]
                /\ last' = [op |-> "computeCellMeans", buffer |-> i, image |-> j,
                            masks |-> [given |-> FALSE], maskEpsilon |-> Undefined,
                            means |-> res.means, draw |-> DrawFrame(res.gl),
                            pre |-> [gl |-> gl]]
        IN  /\ Idle
            /\ Ends(ComputeCellMeans(gl, ctx, buffers[i], images[j], picture,
                                     [given |-> FALSE], Undefined))
            /\ UNCHANGED <<ctx, keyObjects, images, dctCalls>>
            /\ UNCHANGED PassFrame

\* computeImageSobel(context, buffers[i], images[j])
CallComputeImageSobel ==
    \E i \in DOMAIN buffers, j \in DOMAIN images :
    \E picture \in PassPictures(buffers[i].width, buffers[i].height) :
        LET Ends(res) ==
                /\ gl' = res.gl
                /\ buffers' = [buffers EXCEPT ![i] = res.buffer]
                /\ last' = [op |-> "computeImageSobel", buffer |-> i, image |-> j,
                            cells |-> res.cells, draw |-> DrawFrame(res.gl),
                            pre |-> [gl |-> gl]]
        IN  /\ Idle
            /\ Ends(ComputeImageSobel(gl, ctx, buffers[i], images[j], picture))
            /\ UNCHANGED <<ctx, keyObjects, images, dctCalls>>
            /\ UNCHANGED PassFrame

\* the answers the device can give to the compileShaders call of a DCT pass
PassOutcomes(cellSize) ==
    IF CacheKey(cellSize) \in DOMAIN ctx.dctPrograms THEN {"ok"} ELSE CompileOutcomes

\* computeImageDct(context, images[j])
CallComputeImageDct ==
    \E j \in DOMAIN images :
    \E outcome \in PassOutcomes([v |-> images[j].cellSize, obj |-> 1]) :
        LET cellSize == [v |-> images[j].cellSize, obj |-> 1]
            Ends(res) ==
                /\ gl' = res.gl
                /\ ctx' = res.ctx
                /\ keyObjects' = KeyObjectsAfter(DctProgramsOf(ctx), DctProgramsOf(res.ctx),
                                                 <<cellSize>>)
                /\ dctCalls' = IF res.error = "none" THEN dctCalls + 1 ELSE dctCalls
                /\ last' = [op |-> "computeImageDct", image |-> j, error |-> res.error,
                            buffer |-> res.buffer, draw |-> DrawFrame(res.gl),
                            pre |-> [gl |-> gl, ctx |-> ctx]]
        IN  /\ Idle
            /\ dctCalls < MaxDctCalls
            /\ CanCreate(IF CacheKey(cellSize) \in DOMAIN ctx.dctPrograms THEN 2 ELSE 5)
            /\ Ends(ComputeImageDct(gl, ctx, images[j], outcome,
                                    DctPicture(images[j].cellSize[1] * images[j].cellCount[1],
                                               images[j].cellSize[2] * images[j].cellCount[2],
                                               0)))
            /\ UNCHANGED <<buffers, images>>
            /\ UNCHANGED PassFrame

\* the cell sizes of the glyphs: the one of the square cells of an Image
PassGlyphCellSizes == {[v |-> <<cellSizeConstant, cellSizeConstant>>, obj |-> 2]}

\* computeGlyphDcts(context, cellSize, 'lights', ['.'])
PassComputeGlyphDcts ==
    \E cellSize \in PassGlyphCellSizes :
    \E outcome \in PassOutcomes(cellSize) :
        LET Ends(res) ==
                /\ gl' = res.gl
                /\ ctx' = res.ctx
                /\ keyObjects' = KeyObjectsAfter(DctProgramsOf(ctx), DctProgramsOf(res.ctx),
                                                 <<cellSize>>)
                /\ dctCalls' = IF res.error = "none" THEN dctCalls + 1 ELSE dctCalls
                /\ last' = [op |-> "computeGlyphDcts", cellSize |-> cellSize,
                            error |-> res.error, buffer |-> res.buffer,
                            draw |-> DrawFrame(res.gl),
                            pre |-> [gl |-> gl, ctx |-> ctx]]
        IN  /\ Idle
            /\ dctCalls < MaxDctCalls
            /\ CanCreate(IF CacheKey(cellSize) \in DOMAIN ctx.dctPrograms THEN 3 ELSE 6)
            /\ Ends(ComputeGlyphDcts(gl, ctx, drawing, cellSize, Lights,
                                     <<JsString(<<".">>)>>, FALSE, outcome,
                                     DctPicture(cellSize.v[1], cellSize.v[2], 0)))
            /\ UNCHANGED <<buffers, images>>
            /\ UNCHANGED PassFrame

PassNext ==
    \/ ConstructProcessingBuffer
    \/ CallEnable
    \/ CallDisable
    \/ ConstructImage
    \/ PassComputeCellMeans
    \/ CallComputeImageSobel
    \/ CallComputeImageDct
    \/ PassComputeGlyphDcts
    \/ Return
SpecPasses == PassInit /\ [][PassNext]_vars

\* ---- SpecLowFreq: dctLowFreqDistance on any two grids of one shape, of
\* MaxLowFreqCoefs coefficients at most
LowFreqShapes ==
    {shape \in (1..MaxLowFreqCoefs) \X (1..MaxLowFreqCoefs) :
        shape[1] * shape[2] <= MaxLowFreqCoefs}

LowFreqInit ==
    /\ \E shape \in LowFreqShapes :
          /\ gridA \in Grids(shape)
          /\ gridB \in Grids(shape)
    /\ heapNext = 0
    /\ dist = [op |-> "none"]
    /\ drawing = FreshDrawing
    /\ images = <<>>
    /\ dctCalls = 0
    /\ rCellSize = <<1, 1>>
    /\ rCellCount = <<1, 1>>
    /\ rFramebuffer = <<>>
    /\ rCells = [called |-> FALSE]
    /\ gl = [nextId |-> 1]
    /\ ctx = [constructed |-> FALSE]
    /\ keyObjects = <<>>
    /\ buffers = <<>>
    /\ last = [op |-> "none"]

\* dctLowFreqDistance(a, b)
CallLowFreqDistance ==
    /\ dist' = [op |-> "lowFreq", ab |-> dctLowFreqDistance(gridA, gridB, heapNext)]
    /\ UNCHANGED DistFrame

LowFreqNext == CallLowFreqDistance
SpecLowFreq == LowFreqInit /\ [][LowFreqNext]_vars

(***************************************************************************)
(* Properties of ProcessingBuffer.readCells                                *)
(***************************************************************************)

ReadGridIndices ==
    (0..(rCellCount[2] - 1)) \X (0..(rCellCount[1] - 1))
        \X (0..(rCellSize[2] - 1)) \X (0..(rCellSize[1] - 1))

\* C1: readCells returns a grid of shape
\* [cellCount[1]][cellCount[0]][cellSize[1]][cellSize[0]] whose entry
\* [gridRow][gridColumn][cellRow][cellColumn] is mapPixel applied to the raw
\* pixel at column gridColumn*cellSize[0]+cellColumn and bottom-origin row
\* (height-1)-(gridRow*cellSize[1]+cellRow); grid cell (0,0) holds the
\* top-left pixels of the image and every raw pixel appears exactly once.
C1_ReadCellsMapsTopDown ==
    rCells.called =>
        LET cells == rCells.cells
            raw(i) == rFramebuffer[i[2] * rCellSize[1] + i[4]]
                                  [(rHeight - 1) - (i[1] * rCellSize[2] + i[3])]
        IN  /\ DOMAIN cells = 0..(rCellCount[2] - 1)
            /\ \A gridRow \in DOMAIN cells :
                /\ DOMAIN cells[gridRow] = 0..(rCellCount[1] - 1)
                /\ \A gridColumn \in DOMAIN cells[gridRow] :
                    /\ DOMAIN cells[gridRow][gridColumn] = 0..(rCellSize[2] - 1)
                    /\ \A cellRow \in DOMAIN cells[gridRow][gridColumn] :
                          DOMAIN cells[gridRow][gridColumn][cellRow]
                              = 0..(rCellSize[1] - 1)
            /\ \A i \in ReadGridIndices :
                  cells[i[1]][i[2]][i[3]][i[4]] = ApplyMapPixel(rCells.mapPixel, raw(i))
            /\ rCells.mapPixel = "none" =>
                /\ \A cellRow \in 0..(rCellSize[2] - 1), cellColumn \in 0..(rCellSize[1] - 1) :
                      /\ cells[0][0][cellRow][cellColumn][0] = cellColumn
                      /\ cells[0][0][cellRow][cellColumn][1] = (rHeight - 1) - cellRow
                /\ \A x \in 0..(rWidth - 1), y \in 0..(rHeight - 1) :
                      Cardinality({i \in ReadGridIndices :
                                      /\ cells[i[1]][i[2]][i[3]][i[4]][0] = x
                                      /\ cells[i[1]][i[2]][i[3]][i[4]][1] = y}) = 1

\* a read-back of an image of several grid rows of cells several pixels high
C1_Witness ==
    /\ rCells.called
    /\ rCells.mapPixel = "none"
    /\ rCellCount[2] > 1
    /\ rCellSize[2] > 1
    /\ rCellSize[1] # rCellSize[2]
    /\ rCells.cells[0][0][0][0][1] = rHeight - 1

(***************************************************************************)
(* Properties of the matcher distance                                      *)
(***************************************************************************)

\* The numerator over maxRow+maxCol+1 of the sum over every (row, col) of
\* (1 - (row+col)/(maxRow+maxCol+1)) * |a[row][col] - b[row][col]|
WeightedSum(a, b) ==
    LET rows == GridRows(a)
        cols == GridCols(a)
        maxIdx == rows + cols - 1
        term(n) == LET row == (n - 1) \div cols
                       col == (n - 1) % cols
                   IN  (maxIdx - (row + col)) * Abs(a[row][col] - b[row][col])
        sum[n \in 0..(rows * cols)] == IF n = 0 THEN 0 ELSE sum[n - 1] + term(n)
    IN  sum[rows * cols]

\* C2: for equal-shaped grids a and b of any number of rows and columns,
\* dctGradientDistance(a, b) is a number, the sum over every (row, col) of
\* (1 - (row+col)/(maxRow+maxCol+1)) * |a[row][col] - b[row][col]|.
C2_DistanceIsWeightedSum ==
    dist.op = "distance" =>
        /\ dist.ab.type = "number"
        /\ dist.ab.num * (GridRows(gridA) + GridCols(gridA) - 1)
              = WeightedSum(gridA, gridB) * dist.ab.den

\* C3: dctGradientDistance(x, x) == 0 for every grid x, grids of more than
\* one row included.
C3_SelfDistanceIsZero ==
    dist.op = "self" => JsLooseEquals(dist.xx, JsNumber(0, 1))

\* C4: dctGradientDistance(a, b) == dctGradientDistance(b, a) for any two
\* equal-shaped grids.
C4_DistanceIsSymmetric ==
    dist.op = "distance" => JsLooseEquals(dist.ab, dist.ba)

\* C5: selectBestGlyph returns a candidate whose distance to cellSignature
\* is minimal over all candidates, the first in input order among those
\* that share the minimal distance.
C5_SelectsNearestFirst ==
    dist.op = "select" =>
        LET candidates == <<gridA, gridB>>
            d(i) == WeightedSum(dist.cellSignature, candidates[i])
        IN  \A j \in DOMAIN candidates :
                /\ d(dist.best) <= d(j)
                /\ d(j) = d(dist.best) => dist.best <= j

(***************************************************************************)
(* Properties of the DCT program cache and of compileShaders               *)
(***************************************************************************)

\* the keys of the cache entries that hold a program built for (width, height)
EntriesFor(dctPrograms, g, v) ==
    {k \in DOMAIN dctPrograms :
        /\ dctPrograms[k] \in DOMAIN g.source
        /\ g.source[dctPrograms[k]] = DctFragmentSource(v[1], v[2])}

\* C6: after useDctProgram(cellSize) returns normally the cache holds an
\* entry for that (width, height) and the device's current program is that
\* entry; an entry cached before the call means no compilation and an
\* unchanged cache, a missing one means exactly one program is compiled and
\* inserted.
C6_UseDctProgramCaches ==
    (last.op = "useDctProgram" /\ last.error = "none") =>
        LET before == last.pre.ctx.dctPrograms
            after == ctx.dctPrograms
            was == EntriesFor(before, last.pre.gl, last.cellSize.v)
            now == EntriesFor(after, gl, last.cellSize.v)
        IN  /\ Cardinality(now) = 1
            /\ \A k \in now : /\ gl.currentProgram = after[k]
                              /\ after[k] \in gl.programs
            /\ was # {} =>
                  /\ last.compiles = 0
                  /\ after = before
                  /\ gl.programs = last.pre.gl.programs
                  /\ gl.nextId = last.pre.gl.nextId
            /\ was = {} =>
                  /\ last.compiles = 1
                  /\ \A k \in now :
                        /\ k \notin DOMAIN before
                        /\ after = MapSet(before, k, after[k])
                        /\ gl.programs = last.pre.gl.programs \cup {after[k]}
                        /\ after[k] \notin last.pre.gl.programs

\* useDctProgram has compiled a program on a miss and made it current
C6_Witness ==
    /\ last.op = "useDctProgram"
    /\ last.error = "none"
    /\ last.compiles = 1
    /\ last.pre.ctx.dctPrograms # EmptyMap
    /\ gl.currentProgram # 0
    /\ gl.currentProgram # last.pre.gl.currentProgram
    /\ \E k \in DOMAIN ctx.dctPrograms : ctx.dctPrograms[k] = gl.currentProgram

\* C7: the cache is keyed by value: cell sizes of equal width and height,
\* distinct array objects included, address one entry in addCellSize,
\* useDctProgram and clearDctPrograms, so the cache never holds two programs
\* for one (width, height) and a useDctProgram with a cell size equal to a
\* cached one is a hit.
C7_CacheKeyedByValue ==
    /\ ctx.constructed =>
          \A v \in CellSizeValues : Cardinality(EntriesFor(ctx.dctPrograms, gl, v)) <= 1
    /\ (last.op \in {"useDctProgram", "addCellSize"}
            /\ EntriesFor(last.pre.ctx.dctPrograms, last.pre.gl, last.cellSize.v) # {}) =>
          /\ last.error = "none"
          /\ last.compiles = 0
          /\ ctx = last.pre.ctx
    /\ (last.op = "clearDctPrograms" /\ last.cellSizes.given) =>
          \A i \in DOMAIN last.cellSizes.list :
              EntriesFor(ctx.dctPrograms, gl, last.cellSizes.list[i].v) = {}

\* useDctProgram is handed an array object other than the one whose entry
\* is cached, with the same numbers in it, and hits
C7_Witness ==
    /\ last.op = "useDctProgram"
    /\ last.compiles = 0
    /\ CacheKey(last.cellSize) \in DOMAIN keyObjects
    /\ keyObjects[CacheKey(last.cellSize)].v = last.cellSize.v
    /\ keyObjects[CacheKey(last.cellSize)].obj # last.cellSize.obj
    /\ gl.currentProgram = ctx.dctPrograms[CacheKey(last.cellSize)]

\* the positions of `list` whose cell size has an entry in dctPrograms
CachedPositions(dctPrograms, g, list) ==
    {i \in DOMAIN list : EntriesFor(dctPrograms, g, list[i].v) # {}}

\* C8: clearDctPrograms(list) never fails when a listed cell size is not
\* cached: it only warns, still evicts every listed cell size that is
\* cached, and leaves every entry that is not listed unchanged; without an
\* argument it empties the cache.
C8_ClearDctProgramsWarnsOnly ==
    last.op = "clearDctPrograms" =>
        LET before == last.pre.ctx.dctPrograms
            after == ctx.dctPrograms
        IN  /\ last.error = "none"
            /\ gl = last.pre.gl
            /\ last.compiles = 0
            /\ ~last.cellSizes.given => (after = EmptyMap /\ last.warnings = 0)
            /\ last.cellSizes.given =>
                  LET list == last.cellSizes.list
                      cached == CachedPositions(before, gl, list)
                      listed == UNION {EntriesFor(before, gl, list[i].v) : i \in DOMAIN list}
                  IN  /\ DOMAIN after = (DOMAIN before) \ listed
                      /\ \A k \in DOMAIN after : after[k] = before[k]
                      /\ (last.warnings > 0) <=> (cached # DOMAIN list)

\* clearDctPrograms is handed a list that names a cell size that is not
\* cached before one that is, while another cell size stays cached
C8_Witness ==
    /\ last.op = "clearDctPrograms"
    /\ last.cellSizes.given
    /\ last.error = "none"
    /\ last.warnings > 0
    /\ \E i, j \in DOMAIN last.cellSizes.list :
          /\ i < j
          /\ i \notin CachedPositions(last.pre.ctx.dctPrograms, gl, last.cellSizes.list)
          /\ j \in CachedPositions(last.pre.ctx.dctPrograms, gl, last.cellSizes.list)
          /\ CacheKey(last.cellSizes.list[j]) \notin DOMAIN ctx.dctPrograms
    /\ ctx.dctPrograms # EmptyMap

\* what compileShaders throws
CompileFailures == {CompileError(outcome) : outcome \in CompileOutcomes \ {"ok"}}

\* C9: when compileShaders fails at the vertex compile, the fragment
\* compile or the link, every shader and program object it created has been
\* deleted on the device before the error propagates, and no program handle
\* is returned.
C9_FailedCompileReleasesObjects ==
    (last.op \in {"Context", "addCellSize", "useDctProgram"}
        /\ last.error \in CompileFailures) =>
        LET created == last.failFrom..(gl.nextId - 1)
        IN  /\ created # {}
            /\ created \cap (gl.shaders \cup gl.programs) = {}
            /\ \A pair \in gl.attached : pair[1] \notin created /\ pair[2] \notin created
            /\ gl.flagged \cap created = {}
            /\ gl.currentProgram = last.pre.gl.currentProgram
            /\ gl.source = IF last.op = "Context"
                           THEN [id \in (DOMAIN gl.source) \ created |-> gl.source[id]]
                           ELSE last.pre.gl.source
            /\ IF last.op = "Context" THEN ~ctx.constructed ELSE ctx = last.pre.ctx

\* a compileShaders call has failed at the fragment shader, after it had
\* created both shaders
C9_Witness ==
    /\ last.op \in {"addCellSize", "useDctProgram"}
    /\ last.error = CompileError("fragment")
    /\ gl.nextId = last.failFrom + 2
    /\ last.failFrom = last.pre.gl.nextId
    /\ gl.shaders = last.pre.gl.shaders

(***************************************************************************)
(* Properties of the ProcessingBuffer constructor                          *)
(***************************************************************************)

\* C10: constructing a ProcessingBuffer with a cell size or a cell count
\* whose components are not both positive integers fails with an error
\* before any texture or framebuffer is created, and leaves the device's
\* bound framebuffer, bound texture and viewport as they were.
C10_InvalidGeometryFails ==
    (last.op = "ProcessingBuffer"
        /\ (~isCellSize(last.cellSize) \/ ~isCellSize(last.cellCount))) =>
        /\ last.threw
        /\ gl.textures = last.pre.gl.textures
        /\ gl.framebuffers = last.pre.gl.framebuffers
        /\ gl.boundFramebuffer = last.pre.gl.boundFramebuffer
        /\ gl.boundTexture = last.pre.gl.boundTexture
        /\ gl.viewport = last.pre.gl.viewport

\* C11: after enable() the bound framebuffer is the buffer's own and enabled
\* is true; after disable() the bound framebuffer is the default one and
\* enabled is false; after either call the viewport is exactly
\* (0, 0, cellSize[0]*cellCount[0], cellSize[1]*cellCount[1]).
C11_EnableDisableSetViewport ==
    last.op \in {"enable", "disable"} =>
        LET buffer == buffers[last.index]
        IN  /\ last.op = "enable" =>
                  (gl.boundFramebuffer = buffer.framebuffer /\ buffer.enabled)
            /\ last.op = "disable" =>
                  (gl.boundFramebuffer = 0 /\ ~buffer.enabled)
            /\ gl.viewport = <<0, 0, buffer.cellSize[1] * buffer.cellCount[1],
                                     buffer.cellSize[2] * buffer.cellCount[2]>>

(***************************************************************************)
(* Properties of FullImage                                                 *)
(***************************************************************************)

\* a dimension of the source image exceeds the size limit
ExceedsLimit(naturalSize, sizeLimit) ==
    /\ sizeLimit.type = "number"
    /\ \E i \in 1..2 : naturalSize[i] * sizeLimit.den > sizeLimit.num

\* C12: FullImage records textureSizeClipped = true if and only if at least
\* one dimension of the source image exceeds the context's size limit; when
\* none does, the flag is false and the recorded size is the original size.
C12_ClippedFlagIffExceeds ==
    last.op = "FullImage" =>
        /\ last.image.textureSizeClipped
              <=> ExceedsLimit(last.naturalSize, last.sizeLimit)
        /\ ~ExceedsLimit(last.naturalSize, last.sizeLimit) =>
              (~last.image.textureSizeClipped /\ last.image.size = last.naturalSize)

\* C13: for a source image with a dimension above the size limit, both
\* dimensions recorded and uploaded are at most the limit, and each is within
\* one pixel below orig_i/s, s = max(orig_w/limit, orig_h/limit).
C13_ClippedSizeWithinLimit ==
    (last.op = "FullImage" /\ ExceedsLimit(last.naturalSize, last.sizeLimit)) =>
        LET limit == last.sizeLimit
            longest == Max(last.naturalSize[1], last.naturalSize[2])
            uploaded == gl.texImage[last.image.texture]
        IN  /\ uploaded = last.image.size
            /\ \A i \in 1..2 :
                LET d == last.image.size[i]
                    \* orig_i/s = orig_i * limit / longest
                    num == last.naturalSize[i] * limit.num
                    den == longest * limit.den
                IN  /\ d * limit.den <= limit.num
                    /\ d * den <= num
                    /\ num < (d + 1) * den

(***************************************************************************)
(* Properties of computeCellMeans                                          *)
(***************************************************************************)
\* x <= y on doubles
DoubleLessOrEqual(x, y) ==
    \/ Len(x.m) = 0
    \/ /\ Len(y.m) # 0
       /\ \/ x.e < y.e
          \/ (x.e = y.e /\ ~BigLess(y.m, x.m))

MeansCalled == last.op = "computeCellMeans"
MeanCells == {<<gridRow, gridColumn>> : gridRow \in 0..(rCellCount[2] - 1),
                                         gridColumn \in 0..(rCellCount[1] - 1)}

\* the bytes of the pixels of a cell of the picture, the top row first and
\* each row from the left
CellBytes(cell) ==
    [k \in 1..(rCellSize[1] * rCellSize[2]) |->
        rFramebuffer[cell[2] * rCellSize[1] + ((k - 1) % rCellSize[1])]
                    [rHeight - 1 - (cell[1] * rCellSize[2] + ((k - 1) \div rCellSize[1]))]]

\* the epsilon of the call, and whether a pixel is within it of some mask
EpsilonOfCall ==
    IF last.maskEpsilon.type = "undefined" THEN JsNumber(6, 100) ELSE last.maskEpsilon
WithinEpsilonOfMask(bytes) ==
    /\ last.masks.given
    /\ \E i \in 1..Len(last.masks.list) :
          ColorDistanceLess(bytes, last.masks.list[i], EpsilonOfCall)

\* the pixels of a cell that are not masked, in reading order
KeptBytes(cell) == SelectSeq(CellBytes(cell), LAMBDA bytes : ~WithinEpsilonOfMask(bytes))

\* C14: a cell whose every pixel is within epsilon of some mask color has
\* the mean [0, 0, 0, 0], whatever the colors and alphas of its pixels.
C14_FullyMaskedCellIsZero ==
    MeansCalled =>
        \A cell \in MeanCells :
            (\A k \in DOMAIN CellBytes(cell) : WithinEpsilonOfMask(CellBytes(cell)[k]))
                => last.means[cell[1]][cell[2]] = ZeroMean

\* a call whose masks hide every pixel of a cell of two pixels that differ
\* in color and alpha, the second of them hidden by the second mask only
C14_Witness ==
    /\ MeansCalled
    /\ last.masks.given
    /\ Len(last.masks.list) = 2
    /\ rCellSize[1] * rCellSize[2] = 2
    /\ LET bytes == CellBytes(<<0, 0>>)
       IN  /\ bytes[1][0] # bytes[2][0]
           /\ bytes[1][3] # bytes[2][3]
           /\ bytes[1][3] > 0
           /\ bytes[2][3] > 0
           /\ WithinEpsilonOfMask(bytes[1])
           /\ WithinEpsilonOfMask(bytes[2])
           /\ ~ColorDistanceLess(bytes[2], last.masks.list[1], EpsilonOfCall)
    /\ last.means[0][0] = ZeroMean

\* the sum, left to right, of the alphas of a list of pixels
RECURSIVE AlphaSum(_, _)
AlphaSum(pixels, n) ==
    IF n = 0 THEN DoubleZero
    ELSE DoubleAdd(AlphaSum(pixels, n - 1), ByteOver255[pixels[n][3]])

HasVisibleKeptPixel(cell) ==
    \E k \in DOMAIN KeptBytes(cell) : KeptBytes(cell)[k][3] > 0

\* C15: for a cell with a pixel that is not masked and has a positive alpha,
\* the alpha of the mean is the sum of the alphas of the pixels that are not
\* masked, divided by the number of pixels of the cell, masked ones included;
\* so it is no more than the same mean taken over all the pixels.
C15_AlphaIsMeanOverAllPixels ==
    MeansCalled =>
        \A cell \in MeanCells :
            HasVisibleKeptPixel(cell) =>
                LET kept == KeptBytes(cell)
                    all == CellBytes(cell)
                    alpha == last.means[cell[1]][cell[2]][4]
                IN  /\ alpha = DoubleDiv(AlphaSum(kept, Len(kept)), ToDouble(Len(all)))
                    /\ DoubleLessOrEqual(alpha,
                           DoubleDiv(AlphaSum(all, Len(all)), ToDouble(Len(all))))

\* a cell with a masked pixel of positive alpha beside a visible one
C15_Witness ==
    /\ MeansCalled
    /\ \E cell \in MeanCells :
          /\ HasVisibleKeptPixel(cell)
          /\ Len(KeptBytes(cell)) < Len(CellBytes(cell))
          /\ \E k \in DOMAIN CellBytes(cell) :
                /\ WithinEpsilonOfMask(CellBytes(cell)[k])
                /\ CellBytes(cell)[k][3] > 0
          /\ DoublePositive(last.means[cell[1]][cell[2]][4])

\* the sum, left to right, of one color component times alpha of a list of
\* pixels that is not empty
RECURSIVE PremultipliedSum(_, _, _)
PremultipliedSum(pixels, channel, n) ==
    LET term == DoubleMul(ByteOver255[pixels[n][channel]], ByteOver255[pixels[n][3]])
    IN  IF n = 1 THEN term
        ELSE DoubleAdd(PremultipliedSum(pixels, channel, n - 1), term)

\* C16: the RGB of a mean is taken from the pixels that are not masked only:
\* each component is the sum of component * alpha over those pixels divided
\* by the sum of their alphas, whatever the masked pixels hold and however
\* many rows the grid has.
C16_RgbIsWeightedMeanOfKept ==
    MeansCalled =>
        \A cell \in MeanCells :
            HasVisibleKeptPixel(cell) =>
                LET kept == KeptBytes(cell)
                IN  \A channel \in 0..2 :
                        last.means[cell[1]][cell[2]][channel + 1]
                            = DoubleDiv(PremultipliedSum(kept, channel, Len(kept)),
                                        AlphaSum(kept, Len(kept)))

UnmaskedCall == MeansCalled /\ (~last.masks.given \/ Len(last.masks.list) = 0)

\* a cell whose pixels all hold the same bytes, alpha not 0
UniformCell(cell) ==
    /\ \A k \in DOMAIN CellBytes(cell) : CellBytes(cell)[k] = CellBytes(cell)[1]
    /\ CellBytes(cell)[1][3] > 0

\* the color and alpha of the first pixel of a cell, as a mean
FirstPixelAsMean(cell) ==
    <<ByteOver255[CellBytes(cell)[1][0]], ByteOver255[CellBytes(cell)[1][1]],
      ByteOver255[CellBytes(cell)[1][2]], ByteOver255[CellBytes(cell)[1][3]]>>

GlyphCalled == last.op = "computeGlyphDcts"

IsOneCharacterString(v) == v.type = "string" /\ Len(v.chars) = 1

AllOneCharacterStrings ==
    \A i \in DOMAIN last.characters : IsOneCharacterString(last.characters[i])

\* C18: a computeGlyphDcts call handed a character set with an element that
\* is not a string of exactly one character fails with an error, and the
\* caller's drawing context, the device (its objects and bindings) and the
\* Context with its shader cache are what they were before the call.
C18_InvalidCharacterFailsFirst ==
    (GlyphCalled /\ ~AllOneCharacterStrings) =>
        /\ last.error # "none"
        /\ drawing = last.pre.drawing
        /\ gl = last.pre.gl
        /\ ctx = last.pre.ctx

\* a call with a recognized polarity flag and the caller's drawing context,
\* which earlier calls have resized, whose second of three elements is a
\* one-element array: it has thrown the error of the element check
C18_Witness ==
    /\ GlyphCalled
    /\ last.given
    /\ last.pre.drawing.canvas # FreshDrawing.canvas
    /\ last.valueCheck = Lights
    /\ Len(last.characters) = 3
    /\ last.characters[2].type = "array"
    /\ last.error = "character parameter was not a length-1 string"
    /\ drawing = last.pre.drawing

\* C19: a computeGlyphDcts call handed valid characters and a polarity flag
\* that is null, undefined or anything but 'lights' and 'darks' fails with an
\* error, and the width, the height and the font of the caller's canvas
\* context, the device and the Context with its shader cache are what they
\* were before the call.
C19_BadPolarityRetainsNothing ==
    (GlyphCalled /\ AllOneCharacterStrings /\ last.valueCheck \notin {Lights, Darks}) =>
        /\ last.error # "none"
        /\ drawing.canvas = last.pre.drawing.canvas
        /\ drawing.font = last.pre.drawing.font
        /\ gl = last.pre.gl
        /\ ctx = last.pre.ctx

\* the signature of the atlas cell in row `row` and column `column`, rows
\* counted from the top, read from the picture in the atlas buffer: the
\* decoded red bytes (as numerators over 255), [cellSize[1]][cellSize[0]]
AtlasCellReadBack(row, column) ==
    LET cellWidth == last.cellSize.v[1]
        cellHeight == last.cellSize.v[2]
        height == Cardinality(DOMAIN rFramebuffer[0])
    IN  [cellRow \in 0..(cellHeight - 1) |-> [cellColumn \in 0..(cellWidth - 1) |->
            rFramebuffer[column * cellWidth + cellColumn]
                        [height - 1 - (row * cellHeight + cellRow)][0] * 2 - 255]]

\* the fillText call lies inside the canvas cell in row `row` and column `column`
DrawnInCell(text, row, column) ==
    /\ text.x.den = 2
    /\ text.y.den = 2
    /\ column * last.cellSize.v[1] * 2 <= text.x.num
    /\ text.x.num < (column + 1) * last.cellSize.v[1] * 2
    /\ row * last.cellSize.v[2] * 2 <= text.y.num
    /\ text.y.num < (row + 1) * last.cellSize.v[2] * 2

\* C20: a computeGlyphDcts call that returns, handed n >= 1 characters, has
\* drawn on a square atlas of g = ceil(sqrt(n)) cells a side, character i in
\* the cell of row floor(i/g) and column i mod g, and returns n signatures,
\* signature i being the read-back of that cell of the atlas buffer, of
\* shape [cellSize[1]][cellSize[0]].
C20_SignaturesFollowAtlasCells ==
    (GlyphCalled /\ last.error = "none") =>
        LET n == Len(last.characters)
            g == CHOOSE k \in 1..n : k * k >= n /\ n > (k - 1) * (k - 1)
            atlas == buffers[Len(buffers)]
        IN  /\ n >= 1
            /\ last.canvas.canvas = [width |-> g * last.cellSize.v[1],
                                     height |-> g * last.cellSize.v[2]]
            /\ atlas.cellCount = <<g, g>>
            /\ atlas.cellSize = last.cellSize.v
            /\ gl.boundFramebuffer = atlas.framebuffer
            /\ gl.texImage[gl.boundTexture] = <<last.canvas.canvas.width,
                                                last.canvas.canvas.height>>
            /\ Len(last.canvas.texts) = n
            /\ Len(last.signatures) = n
            /\ \A i \in 0..(n - 1) :
                  /\ last.canvas.texts[i + 1].text = last.characters[i + 1]
                  /\ DrawnInCell(last.canvas.texts[i + 1], i \div g, i % g)
                  /\ last.signatures[i + 1] = AtlasCellReadBack(i \div g, i % g)

\* a call that has returned the signatures of three characters, drawn on the
\* caller's canvas in cells two pixels wide and one high: the atlas has four
\* cells, and the last one is left out
C20_Witness ==
    /\ GlyphCalled
    /\ last.error = "none"
    /\ last.given
    /\ Len(last.characters) = 3
    /\ last.cellSize.v = <<2, 1>>
    /\ Len(last.signatures) = 3
    /\ buffers[Len(buffers)].cellCount = <<2, 2>>
    /\ drawing = last.canvas

(***************************************************************************)
(* Properties of the Context constructor, addCellSize and the cache keys   *)
(***************************************************************************)

\* the programs of the device that were linked
LinkedPrograms(g) == {program \in g.programs : program \in DOMAIN g.source}

\* the places of `list` that hold a cell size isCellSize rejects
InvalidPositions(list) == {i \in DOMAIN list : ~isCellSize(list[i].v)}

\* C24: constructing a Context with a cellSizes list that contains an
\* invalid cell size does not fail: the invalid entry is skipped with a
\* warning, and the cache holds a program for exactly the valid cell sizes of
\* the list.
C24_InvalidListedCellSizeSkipped ==
    (last.op = "Context"
        /\ last.cellSizes.given
        /\ InvalidPositions(last.cellSizes.list) # {}
        /\ last.error \notin CompileFailures) =>
        LET list == last.cellSizes.list
        IN  /\ last.error = "none"
            /\ ctx.constructed
            /\ last.warnings = Cardinality(InvalidPositions(list))
            /\ \A i \in DOMAIN list :
                  isCellSize(list[i].v) <=> CacheKey(list[i]) \in DOMAIN ctx.dctPrograms
            /\ \A k \in DOMAIN ctx.dctPrograms :
                  \E i \in DOMAIN list :
                      k \in EntriesFor(ctx.dctPrograms, gl, list[i].v)

\* C25: addCellSize(cellSize) with a valid cell size that is not cached
\* compiles one program and caches it; with a cached cell size it compiles
\* nothing and keeps the existing program, with a warning only; with an
\* invalid cell size it compiles nothing, leaves the cache unchanged and does
\* not fail.
C25_AddCellSizeCases ==
    last.op = "addCellSize" =>
        LET before == last.pre.ctx.dctPrograms
            after == ctx.dctPrograms
            key == CacheKey(last.cellSize)
            valid == isCellSize(last.cellSize.v)
            cached == EntriesFor(before, last.pre.gl, last.cellSize.v) # {}
        IN  /\ (valid /\ ~cached) =>
                  /\ last.compiles = 1
                  /\ last.error = "none" =>
                        /\ key \notin DOMAIN before
                        /\ key \in DOMAIN after
                        /\ after = MapSet(before, key, after[key])
                        /\ gl.programs = last.pre.gl.programs \cup {after[key]}
                        /\ after[key] \notin last.pre.gl.programs
                        /\ gl.source[after[key]]
                              = DctFragmentSource(last.cellSize.v[1], last.cellSize.v[2])
                        /\ last.warnings = 0
            /\ (valid /\ cached) =>
                  /\ last.error = "none"
                  /\ last.compiles = 0
                  /\ after = before
                  /\ gl = last.pre.gl
                  /\ last.warnings = 1
            /\ ~valid =>
                  /\ last.error = "none"
                  /\ last.compiles = 0
                  /\ after = before
                  /\ gl = last.pre.gl

\* addCellSize is handed a cell size whose program is cached, in an array
\* object other than the one it was cached with, and only warns
C25_Witness ==
    /\ last.op = "addCellSize"
    /\ isCellSize(last.cellSize.v)
    /\ last.warnings = 1
    /\ last.compiles = 0
    /\ CacheKey(last.cellSize) \in DOMAIN keyObjects
    /\ keyObjects[CacheKey(last.cellSize)].obj # last.cellSize.obj
    /\ ctx.dctPrograms[CacheKey(last.cellSize)] \in LinkedPrograms(gl)

\* C26: when compileShaders fails inside useDctProgram or addCellSize the
\* error reaches the caller, the cache is exactly as before the call, with no
\* entry for the cell size that failed, and the device's current program is
\* unchanged; no program that was not linked is on the device or in the
\* cache.
C26_FailedCompileLeavesCache ==
    (last.op \in {"useDctProgram", "addCellSize"} /\ last.failFrom # 0) =>
        /\ last.error \in CompileFailures
        /\ ctx = last.pre.ctx
        /\ CacheKey(last.cellSize) \notin DOMAIN ctx.dctPrograms
        /\ gl.currentProgram = last.pre.gl.currentProgram
        /\ gl.programs = LinkedPrograms(gl)
        /\ \A k \in DOMAIN ctx.dctPrograms : ctx.dctPrograms[k] \in LinkedPrograms(gl)

\* the link fails inside useDctProgram while another program is cached and
\* current
C26_Witness ==
    /\ last.op = "useDctProgram"
    /\ last.error = CompileError("link")
    /\ last.failFrom # 0
    /\ gl.currentProgram # 0
    /\ \E k \in DOMAIN ctx.dctPrograms : ctx.dctPrograms[k] = gl.currentProgram

\* C30: after any sequence of Context construction, addCellSize,
\* clearDctPrograms and useDctProgram calls, every key of the DCT program
\* cache denotes a valid cell size, two positive integers, and its program
\* was compiled for exactly that width and height.
C30_CacheKeysAreValidCellSizes ==
    ctx.constructed =>
        \A k \in DOMAIN ctx.dctPrograms :
            \E v \in CellSizeValues :
                /\ isCellSize(v)
                /\ Join(v) = k
                /\ ctx.dctPrograms[k] \in DOMAIN gl.source
                /\ gl.source[ctx.dctPrograms[k]] = DctFragmentSource(v[1], v[2])

\* C28: Context.imageSizeLimit is a positive integer equal to the minimum of
\* the device's maximum texture size and both components of its maximum
\* viewport dimensions, so it exceeds none of the three.
C28_ImageSizeLimitIsMinimum ==
    ctx.constructed =>
        LET limit == ctx.imageSizeLimit
            sizes == {gl.maxTextureSize, gl.maxViewportDims[1], gl.maxViewportDims[2]}
        IN  /\ limit.type = "number"
            /\ limit.den = 1
            /\ limit.num > 0
            /\ limit.num \in sizes
            /\ \A size \in sizes : limit.num <= size

(***************************************************************************)
(* Properties of dctLowFreqDistance                                        *)
(***************************************************************************)

\* the grids of the shape of `grid` that hold its coefficients in the first
\* round(rows/2)+1 rows and the first round(columns/2)+1 columns
SameLowBlock(grid) ==
    {other \in Grids(<<GridRows(grid), GridCols(grid)>>) :
        \A r \in 0..(GridRows(grid) - 1), c \in 0..(GridCols(grid) - 1) :
            (r <= RoundHalf(GridRows(grid)) /\ c <= RoundHalf(GridCols(grid)))
                => other[r][c] = grid[r][c]}

\* coefficients outside the block do not change the result
LowFreqIgnoresHighBlock ==
    dist.op = "lowFreq" =>
        \A a \in SameLowBlock(gridA), b \in SameLowBlock(gridB) :
            dctLowFreqDistance(a, b, heapNext) = dist.ab

\* C27: dctLowFreqDistance(a, b) compares the lower-frequency components
\* only: the result is a number, and it is the result for every pair of
\* grids that differ from a and b outside the first round(rows/2)+1 rows
\* and round(columns/2)+1 columns only.
C27_LowFreqDistanceUsesLowBlock ==
    /\ dist.op = "lowFreq" => dist.ab.type = "number"
    /\ LowFreqIgnoresHighBlock

(***************************************************************************)
(* Properties of the passes                                                *)
(***************************************************************************)

\* C21: after any sequence of ProcessingBuffer and Image constructions and
\* earlier passes, the draw and the readCells of computeCellMeans and of
\* computeImageSobel work with the framebuffer of the ProcessingBuffer that
\* was passed as the bound framebuffer, with the texture of the image that
\* was passed as the bound texture, and with the program of the pass.
C21_PassDrawsIntoPassedBuffer ==
    last.op \in {"computeCellMeans", "computeImageSobel"} =>
        /\ last.draw.framebuffer = buffers[last.buffer].framebuffer
        /\ gl.boundFramebuffer = buffers[last.buffer].framebuffer
        /\ last.draw.texture = images[last.image].texture
        /\ last.draw.program = IF last.op = "computeCellMeans" THEN ctx.redrawProgram
                                ELSE ctx.sobelProgram

\* the textures and framebuffers created on the device and not deleted
LiveObjects(g) == Cardinality(g.textures) + Cardinality(g.framebuffers)

\* C22: the textures and framebuffers a call of computeImageDct or
\* computeGlyphDcts creates are released, so that the number of live ones
\* does not grow with the number of calls: a call that is not the first on
\* its context leaves no more of them than it found.
C22_DctCallsDoNotAccumulateObjects ==
    (last.op \in {"computeImageDct", "computeGlyphDcts"}
        /\ last.error = "none"
        /\ dctCalls >= 2) =>
        LiveObjects(gl) <= LiveObjects(last.pre.gl)

\* the pixelSize and cellSize uniforms that describe a buffer
BufferUniforms(buffer) ==
    [pixelSize |-> <<JsDivide(1, buffer.width), JsDivide(1, buffer.height)>>,
     cellSize |-> <<JsDivide(buffer.cellSize[1], buffer.width),
                    JsDivide(buffer.cellSize[2], buffer.height)>>]

\* C23: whenever computeGlyphDcts draws, the pixelSize and cellSize
\* uniforms of the DCT program in use describe the atlas buffer:
\* (1/width, 1/height) and (cellSize[0]/width, cellSize[1]/height), whatever
\* images were processed before and whether the program was cached or not.
C23_GlyphDctUniformsDescribeAtlas ==
    (last.op = "computeGlyphDcts" /\ last.error = "none") =>
        /\ last.draw.program = ctx.dctPrograms[CacheKey(last.cellSize)]
        /\ last.draw.pixelSize = BufferUniforms(last.buffer).pixelSize
        /\ last.draw.cellSize = BufferUniforms(last.buffer).cellSize

\* C29: in every state reached by constructing ProcessingBuffers and Images
\* and by calling enable, disable and the passes on one context, the enabled
\* flag of a ProcessingBuffer is true if and only if its framebuffer is the
\* bound framebuffer of the device; at most one flag is true.
C29_EnabledIffBound ==
    /\ \A i \in DOMAIN buffers :
          buffers[i].enabled <=> gl.boundFramebuffer = buffers[i].framebuffer
    /\ Cardinality({i \in DOMAIN buffers : buffers[i].enabled}) <= 1

\* the uniforms computeImageDct sets describe its buffer
ImageDctUniformsDescribeBuffer ==
    (last.op = "computeImageDct" /\ last.error = "none") =>
        /\ last.draw.pixelSize = BufferUniforms(last.buffer).pixelSize
        /\ last.draw.cellSize = BufferUniforms(last.buffer).cellSize
        /\ last.draw.framebuffer = last.buffer.framebuffer
        /\ last.draw.texture = images[last.image].texture

====
